---- MODULE Spec2Model ----
(***************************************************************************)
(* Sensor-health / integration-event orchestration of the nest-api         *)
(* service: NestIntegrationService.handle_integration_event and its        *)
(* two-phase power cycle, NestService.get_sensor_info and                  *)
(* NestService.poll_sensor_status, over the Integration and Sensor         *)
(* collections, the Kasa scene client, the feature flags and the clock.    *)
(***************************************************************************)
EXTENDS Integers, Sequences, FiniteSets, TLC

\* ---------------------------------------------------------------- bounds
\* Largest clock reading at which a request may still start.
MaxTime == 180
\* Granularity of the clock readings, in seconds.
TickSeconds == 30
\* Largest number of documents in the Integration collection.
MaxEvents == 2
\* Largest number of documents in the Sensor collection.
MaxRecords == 2
\* Latest clock reading at which one of two overlapping calls may start.
MaxOverlapStart == 30
\* Largest number of cache tasks that are created but not yet done.
MaxTasks == 3
\* Largest number of stored events an event query is run against.
MaxStored == 3
\* The clock reading at which the event queries are made.
QueryTime == 172800

\* ------------------------------------------------------ program constants
SENSOR_UNHEALTHY_SECONDS == 90

\* configuration.nest['minimum_integration_interval'], in minutes
minimum_integration_interval == 1

\* configuration.nest['integration_power_cycle_seconds']
integration_power_cycle_seconds == 30

\* Python's None, where the value it stands in for is a string
None == "None"

\* IntegrationEventType
PowerCycle == "power-cycle"
\* a value that is not a member of IntegrationEventType
OtherEventType == "fan-cycle"

\* IntegrationEventResult
Success == "success"
Failure == "failure"
NotSupported == "not-supported"
MinimumInterval == "minimum-interval"
NoAction == "no-action"
InvalidConfiguration == "invalid-configuration"
Error == "error"

\* IntergationDeviceType
Plug == "plug"
Fan == "fan"

\* KasaIntegrationSceneType
PowerOn == "device_on"
PowerOff == "device_off"

\* HealthStatus
Healthy == "healthy"
Unhealthy == "unhealthy"

\* ThermostatMode
Heat == "HEAT"
Cool == "COOL"
Range == "HEATCOOL"
Off == "OFF"

ThermostatMode == {Heat, Cool, Range, Off}

\* NestCommandType
SetRange == "set-range"
SetHeat == "set-heat"
SetCool == "set-cool"
SetPowerOff == "set-power-off"
SetMode == "set-mode"

NestCommandType == {SetRange, SetHeat, SetCool, SetPowerOff, SetMode}

\* NestCommand: the commands of the thermostat's API
NEST_COMMAND_SET_HEAT == "sdm.devices.commands.ThermostatTemperatureSetpoint.SetHeat"
NEST_COMMAND_SET_COOL == "sdm.devices.commands.ThermostatTemperatureSetpoint.SetCool"
NEST_COMMAND_SET_RANGE == "sdm.devices.commands.ThermostatTemperatureSetpoint.SetRange"
NEST_COMMAND_SET_MODE == "sdm.devices.commands.ThermostatMode.SetMode"

\* NestCommandTypeMapping
NestCommandTypeMapping ==
    (SetPowerOff :> NEST_COMMAND_SET_MODE) @@ (SetMode :> NEST_COMMAND_SET_MODE)
    @@ (SetCool :> NEST_COMMAND_SET_COOL) @@ (SetHeat :> NEST_COMMAND_SET_HEAT)
    @@ (SetRange :> NEST_COMMAND_SET_RANGE)

\* configuration.nest['minimum_allowed_temperature'] and
\* configuration.nest['maximum_allowed_temperature'], in degrees Fahrenheit
minimum_allowed_temperature == 60
maximum_allowed_temperature == 80

\* ------------------------------------------------------------ environment
\* The Device collection: device_id -> device_name.
device_name == [s1 |-> "b-sensor", s2 |-> "a-sensor"]

Devices == DOMAIN device_name

\* Request workers (the event loop runs their coroutines interleaved).
Procs == {1, 2}

\* What KasaClient.run_scene can produce: an HTTP status code, or an
\* exception (transport error, timeout), written as status -1. The
\* exception includes the AttributeError of KasaClient.__get_headers, which
\* reads ClientScope.KasaApi, a name domain.auth.ClientScope does not
\* define: as the sources stand every run_scene call raises it, and the
\* status codes are what the call produces once that scope is defined.
Raised == -1

KasaOutcomes == {200, 201, 500, Raised}

\* One entry of configuration.kasa['devices'][i]['integrations'].
Integration(device_type, scenes) == [device_type |-> device_type, scenes |-> scenes]

BothScenes == [device_off |-> "off-scene", device_on |-> "on-scene"]

\* The integration lists a device's configuration may hold.
ConfigSet ==
    { <<Integration(Plug, BothScenes)>>,
      <<Integration(Fan, BothScenes), Integration(Plug, BothScenes)>>,
      <<Integration(Fan, BothScenes)>>,
      <<>>,
      <<Integration(Plug, [device_on |-> "on-scene"])>>,
      <<Integration(Plug, [device_off |-> "off-scene"])>>,
      <<Integration(Plug, [device_off |-> "", device_on |-> "on-scene"])>>,
      <<Integration(Plug, [device_off |-> "off-scene", device_on |-> " "])>>,
      <<Integration(Plug, [device_off |-> None, device_on |-> None])>> }

VARIABLES
    now,            \* the clock: what DateTimeUtil.timestamp() returns
    integrations,   \* NestIntegrationService.integrations: sensor_id -> integration list
    events,         \* the Integration collection, in insertion order
    sensor_data,    \* the Sensor collection, in insertion order
    kasa,           \* per sensor, when its plug was last asked to power off (-1: never)
    plug,           \* the physical state of each sensor's smart plug
    uuids,          \* how many uuid4() values have been drawn
    pc,             \* where each worker's coroutine is suspended
    hie,            \* the frame of each worker's handle_integration_event call
    poll,           \* the frame of each worker's poll_sensor_status / get_sensor_info call
    lsd,            \* the frame of each worker's log_sensor_data call
    thermostat,     \* the mode the thermostat is in (the Nest cloud's state)
    cache,          \* the cache entry 'nest-active-thermostat-mode' (None: no entry)
    tasks,          \* the fire-and-forget cache tasks not yet done, in creation order
    cmd,            \* the frame of each worker's handle_command call
    clients,        \* IdentityClient.__clients: client name -> registered credentials
    token_cache,    \* the cached tokens: cache key -> token
    token_tasks,    \* the token cache writes created and not yet done
    idc,            \* the frame of each worker's get_token call
    gie             \* the frame of each worker's get_integration_events call

\* The state of the command service, of the identity client and of the
\* event query.
command_vars == <<thermostat, cache, tasks, cmd>>
identity_vars == <<clients, token_cache, token_tasks, idc>>
query_vars == <<gie>>

\* What the sensor and integration services leave alone.
other_vars == <<command_vars, identity_vars, query_vars>>

\* The state of the sensor and integration services, but for pc.
sensor_vars == <<now, integrations, events, sensor_data, kasa, plug, uuids, hie, poll, lsd>>

vars == <<now, integrations, events, sensor_data, kasa, plug, uuids, pc, hie, poll, lsd,
          thermostat, cache, tasks, cmd, clients, token_cache, token_tasks, idc, gie>>

\* ----------------------------------------------------------- pure helpers
\* DateTimeUtil.timestamp()
timestamp == now

\* Mutation: only None counts, a blank scene id passes.
none_or_whitespace_NoneOnly(value) == value = None

\* framework.validators.nulls.none_or_whitespace, as used on the scene ids
none_or_whitespace(value) == value = None \/ value \in {"", " "}

\* Mutation: any configured integration counts as support.
is_supported_Any(config, integration_type) == Len(config) > 0

\* DeviceIntegrationConfig.is_supported
is_supported(config, integration_type) ==
    \E i \in 1..Len(config) : config[i].device_type = integration_type

\* DeviceIntegrationConfig.get_integration_data: the first match, as a list
\* of one integration, or the empty list for None
get_integration_data(config, integration_device_type) ==
    LET hits == {i \in 1..Len(config) : config[i].device_type = integration_device_type}
    IN  IF hits = {} THEN <<>>
        ELSE <<config[CHOOSE i \in hits : \A j \in hits : i <= j]>>

\* DeviceIntegrationSceneMapping.get_scene: scenes.get(scene_type)
get_scene(mapping, scene_type) ==
    IF scene_type \in DOMAIN mapping.scenes THEN mapping.scenes[scene_type] ELSE None

\* NestIntegrationService.is_device_integration_supported
is_device_integration_supported(device_id) == device_id \in DOMAIN integrations

\* The documents of a collection that match {'sensor_id': sensor_id}.
BySensor(collection, sensor_id) ==
    {collection[i] : i \in {j \in 1..Len(collection) : collection[j].sensor_id = sensor_id}}

\* find_one(filter, sort=[('timestamp', -1)]): no document, or one of the newest
FindNewest(docs) ==
    IF docs = {} THEN {}
    ELSE {CHOOSE d \in docs : \A e \in docs : e.timestamp <= d.timestamp}

\* Mutation: the read of the latest event finds nothing.
get_latest_integation_event_by_sensor_NoneFound(sensor_id) == {}

\* NestIntegrationRepository.get_latest_integation_event_by_sensor
get_latest_integation_event_by_sensor(sensor_id) == FindNewest(BySensor(events, sensor_id))

\* Mutation: the interval, configured in minutes, is compared as seconds.
MinimumIntervalNotMet_Seconds(latest_event, t) ==
    t - latest_event.timestamp < minimum_integration_interval

\* Mutation: the minimum interval is not tested at all.
MinimumIntervalNotMet_Never(latest_event, t) == FALSE

\* Mutation: the boundary second is still throttled.
MinimumIntervalNotMet_Inclusive(latest_event, t) ==
    t - latest_event.timestamp <= minimum_integration_interval * 60

\* The minimum-interval test of handle_integration_event.
MinimumIntervalNotMet(latest_event, t) ==
    t - latest_event.timestamp < minimum_integration_interval * 60

\* Mutation: the status code is not tested, only an exception fails.
SceneFailed_ExceptionOnly(status) == status = Raised

\* The status test of both power-cycle phases: anything but 200 raises.
SceneFailed(status) == status = Raised \/ status # 200

\* Whether the Kasa service ran the scene: a 2xx answer says it did, an
\* error answer says it did not, and after a transport error either holds.
SceneRan(status, ran_on_error) ==
    IF status = Raised THEN ran_on_error ELSE status \in 200..299

\* DateTimeUtil.az_local: `datetime` is the class datetime.datetime there,
\* which has no attribute `timedelta`, so the call raises AttributeError.
az_local_raises == TRUE

\* ------------------------------------------------------------ frames
NoFrame ==
    [sensor_id |-> "", event_type |-> "", caller |-> "", latest |-> {},
     checked_at |-> 0, read_len |-> 0, power_cycle_result |-> "", result |-> "",
     message |-> "", trace |-> <<>>, events0 |-> <<>>]

NoPoll == [op |-> "", pending |-> {}, device_health |-> <<>>, sensors |-> <<>>, idx |-> 0,
           integration |-> "", results |-> <<>>, alerts |-> <<>>,
           calls |-> <<>>, flags |-> <<>>]

NoLog == [sensor_id |-> "", record_id |-> 0]

\* The frame of a handle_command call: the request, the mode asked of
\* set_thermostat_mode, the mode it took for the current one, the mode the
\* thermostat was in when it was entered, the exception, the effects.
NoCommand ==
    [command_type |-> "",
     params |-> [heat_degrees_fahrenheit |-> {}, cool_degrees_fahrenheit |-> {}],
     mode |-> "", current_mode |-> "",
     actual |-> "", raised |-> "", trace |-> <<>>]

\* The frame of a get_token call: the arguments, the form that is posted
\* ({} before the post), the token returned, the exception.
NoToken == [client_name |-> "", scope |-> "", data |-> {}, token |-> {}, raised |-> ""]

\* The frame of a get_integration_events call: the arguments, the list
\* returned.
NoQuery == [days_back |-> 0, sensor_id |-> "", returned |-> <<>>]

\* One side effect of a handle_integration_event call, in call order.
Effect(op, arg, status) == [op |-> op, arg |-> arg, status |-> status, at |-> now]

\* HandleIntegrationEventResponse: the result and the message of a response
HandleIntegrationEventResponse(result, message) == [result |-> result, message |-> message]

\* The response of a power cycle that has not ended yet.
Proceed == HandleIntegrationEventResponse("", "")

\* No response: DeviceIntegrationSceneMapping.from_config(data=None) raises.
AttributeError == HandleIntegrationEventResponse("raised", "AttributeError")

\* An event that an earlier run of the service left in the Integration
\* collection (the collection outlives the process and its configuration).
StoredEvent ==
    [event_id |-> 0, sensor_id |-> "s1", event_type |-> PowerCycle,
     result |-> Success, timestamp |-> 0]

\* The command service, the identity client and the event query at rest.
InitOthers ==
    /\ thermostat = Off
    /\ cache = None
    /\ tasks = <<>>
    /\ cmd = [p \in Procs |-> NoCommand]
    /\ clients = <<>>
    /\ token_cache = <<>>
    /\ token_tasks = {}
    /\ idc = [p \in Procs |-> NoToken]
    /\ gie = [p \in Procs |-> NoQuery]

Init ==
    /\ now = 0
    /\ integrations \in
          {[d \in {"s1", "s2"} |-> IF d = "s1" THEN c ELSE <<Integration(Plug, BothScenes)>>] : c \in ConfigSet}
          \cup {[d \in {"s2"} |-> <<Integration(Plug, BothScenes)>>]}
    /\ events \in {<<>>, <<StoredEvent>>}
    /\ sensor_data = <<>>
    /\ kasa = [d \in Devices |-> -1]
    /\ plug = [d \in Devices |-> "on"]
    /\ uuids = 0
    /\ pc = [p \in Procs |-> "idle"]
    /\ hie = [p \in Procs |-> NoFrame]
    /\ poll = [p \in Procs |-> NoPoll]
    /\ lsd = [p \in Procs |-> NoLog]
    /\ InitOthers

\* The clock advances.
Tick ==
    /\ now + TickSeconds <= MaxTime
    /\ now' = now + TickSeconds
    /\ UNCHANGED <<integrations, other_vars, events, sensor_data, kasa, plug, uuids, pc, hie, poll, lsd>>

\* ------------------------------------------- handle_integration_event
\* _handle_power_cycle_integration_event up to its first await: the
\* support check and the two scene-id checks.
power_cycle_checks(config) ==
    IF ~is_supported(config, Plug)
    THEN HandleIntegrationEventResponse(NotSupported,
            "The sensor does not support the integration type")
    ELSE IF get_integration_data(config, Plug) = <<>>
    THEN AttributeError
    ELSE LET mapping == Head(get_integration_data(config, Plug))
             power_off == get_scene(mapping, PowerOff)
             power_on == get_scene(mapping, PowerOn)
         IN  IF none_or_whitespace(power_off)
             THEN HandleIntegrationEventResponse(InvalidConfiguration,
                     "No scene ID was found for power off phase")
             ELSE IF none_or_whitespace(power_on)
             THEN HandleIntegrationEventResponse(InvalidConfiguration,
                     "No scene ID was found for power on phase")
             ELSE Proceed

\* Mutation: every result of the power cycle goes on to the alert.
AlertResults_Every ==
    {Success, Failure, Error, NotSupported, InvalidConfiguration, MinimumInterval, NoAction}

\* The results for which handle_integration_event goes on to the alert.
AlertResults == {Success, Failure, Error}

\* Mutation: a sensor without integration config gets the typed result
\* NoAction instead of the exception.
handle_integration_event_NoAction(p, sensor_id, event_type, caller) ==
    LET frame == [NoFrame EXCEPT !.sensor_id = sensor_id, !.event_type = event_type,
                                 !.caller = caller, !.events0 = events]
    IN  IF sensor_id \notin DOMAIN integrations
        THEN /\ hie' = [hie EXCEPT ![p] = [frame EXCEPT !.result = NoAction]]
             /\ pc' = [pc EXCEPT ![p] = "hie_returned"]
        ELSE /\ hie' = [hie EXCEPT ![p] = frame]
             /\ pc' = [pc EXCEPT ![p] = "hie_get_latest"]

\* handle_integration_event is entered: the config lookup. A sensor
\* without integration config raises before anything is read.
handle_integration_event(p, sensor_id, event_type, caller) ==
    LET frame == [NoFrame EXCEPT !.sensor_id = sensor_id, !.event_type = event_type,
                                 !.caller = caller, !.events0 = events]
    IN  /\ hie' = [hie EXCEPT ![p] = frame]
        /\ pc' = [pc EXCEPT ![p] =
                    IF sensor_id \notin DOMAIN integrations THEN "hie_raised"
                    ELSE "hie_get_latest"]

\* A caller of the service invokes handle_integration_event directly.
CallHandleIntegrationEvent(p) ==
    /\ pc[p] = "idle"
    /\ now <= MaxTime
    /\ Len(events) < MaxEvents
    /\ \E sensor_id \in Devices, event_type \in {PowerCycle, OtherEventType} :
          handle_integration_event(p, sensor_id, event_type, "api")
    /\ UNCHANGED <<now, integrations, other_vars, events, sensor_data, kasa, plug, uuids, poll, lsd>>

\* The latest event is read and the minimum interval is tested; when the
\* call is not throttled it runs on to the first run_scene request.
GetLatestEvent(p) ==
    /\ pc[p] = "hie_get_latest"
    /\ LET frame == hie[p]
           config == integrations[frame.sensor_id]
           latest == get_latest_integation_event_by_sensor(frame.sensor_id)
           read == [frame EXCEPT !.latest = latest, !.checked_at = timestamp,
                                 !.read_len = Len(events),
                                 !.trace = Append(@, Effect("find_one", "", 0))]
           checks == power_cycle_checks(config)
       IN  IF \E latest_event \in latest : MinimumIntervalNotMet(latest_event, timestamp)
           THEN /\ hie' = [hie EXCEPT ![p] = [read EXCEPT !.result = MinimumInterval,
                    !.message = "The minimum interval has not passed since the last event"]]
                /\ pc' = [pc EXCEPT ![p] = "hie_returned"]
           ELSE IF frame.event_type # PowerCycle
           THEN /\ hie' = [hie EXCEPT ![p] = [read EXCEPT !.result = NoAction,
                    !.message = "No action was taken for the event type"]]
                /\ pc' = [pc EXCEPT ![p] = "hie_returned"]
           ELSE IF checks = AttributeError
           THEN /\ hie' = [hie EXCEPT ![p] = read]
                /\ pc' = [pc EXCEPT ![p] = "hie_raised"]
           ELSE IF checks # Proceed
           THEN /\ hie' = [hie EXCEPT ![p] = [read EXCEPT
                    !.power_cycle_result = checks.result,
                    !.result = IF checks.result \in AlertResults THEN "" ELSE checks.result,
                    !.message = checks.message]]
                /\ pc' = [pc EXCEPT ![p] =
                            IF checks.result \in AlertResults THEN "hie_alert"
                            ELSE "hie_returned"]
           ELSE /\ hie' = [hie EXCEPT ![p] = read]
                /\ pc' = [pc EXCEPT ![p] = "hie_power_off"]
    /\ UNCHANGED <<now, integrations, other_vars, events, sensor_data, kasa, plug, uuids, poll, lsd>>

\* Mutation: a failed power-off is not terminal, the call goes on to the
\* sleep and the power-on phase.
PowerOffPhase_Continues(p) ==
    /\ pc[p] = "hie_power_off"
    /\ \E status \in KasaOutcomes, ran_on_error \in BOOLEAN :
          /\ (status # Raised => ran_on_error = FALSE)
          /\ kasa' = [kasa EXCEPT ![hie[p].sensor_id] = now]
          /\ plug' = IF SceneRan(status, ran_on_error)
                     THEN [plug EXCEPT ![hie[p].sensor_id] = "off"] ELSE plug
          /\ hie' = [hie EXCEPT ![p].trace = Append(@, Effect("run_scene", PowerOff, status))]
          /\ pc' = [pc EXCEPT ![p] = "hie_sleep"]
    /\ UNCHANGED <<now, integrations, other_vars, events, sensor_data, uuids, poll, lsd>>

\* The power-off phase: run_scene(power_off) and its status test.
PowerOffPhase(p) ==
    /\ pc[p] = "hie_power_off"
    /\ \E status \in KasaOutcomes, ran_on_error \in BOOLEAN :
          /\ (status # Raised => ran_on_error = FALSE)
          /\ kasa' = [kasa EXCEPT ![hie[p].sensor_id] = now]
          /\ plug' = IF SceneRan(status, ran_on_error)
                     THEN [plug EXCEPT ![hie[p].sensor_id] = "off"] ELSE plug
          /\ LET called == [hie[p] EXCEPT !.trace = Append(@, Effect("run_scene", PowerOff, status))]
             IN  IF SceneFailed(status)
                 THEN /\ hie' = [hie EXCEPT ![p] = [called EXCEPT
                            !.power_cycle_result = Error,
                            !.message = "An error occurred while sending the request to run the power off scene"]]
                      /\ pc' = [pc EXCEPT ![p] = "hie_alert"]
                 ELSE /\ hie' = [hie EXCEPT ![p] = called]
                      /\ pc' = [pc EXCEPT ![p] = "hie_sleep"]
    /\ UNCHANGED <<now, integrations, other_vars, events, sensor_data, uuids, poll, lsd>>

\* Mutation: the sleep is not awaited, no time passes between the phases.
Sleep_NotAwaited(p) ==
    /\ pc[p] = "hie_sleep"
    /\ hie' = [hie EXCEPT ![p].trace =
                  Append(@, Effect("sleep", "", integration_power_cycle_seconds))]
    /\ pc' = [pc EXCEPT ![p] = "hie_power_on"]
    /\ UNCHANGED <<now, integrations, other_vars, events, sensor_data, kasa, plug, uuids, poll, lsd>>

\* asyncio.sleep(integration_power_cycle_seconds) between the phases.
Sleep(p) ==
    /\ pc[p] = "hie_sleep"
    /\ now' = now + integration_power_cycle_seconds
    /\ hie' = [hie EXCEPT ![p].trace =
                  Append(@, Effect("sleep", "", integration_power_cycle_seconds))]
    /\ pc' = [pc EXCEPT ![p] = "hie_power_on"]
    /\ UNCHANGED <<integrations, other_vars, events, sensor_data, kasa, plug, uuids, poll, lsd>>

\* asyncio.sleep(integration_power_cycle_seconds) of a call that shares the
\* clock with other calls: the sleeper wakes once the clock, advanced
\* meanwhile by the others, shows that its interval has passed.
SleepElapsed(p) ==
    /\ pc[p] = "hie_sleep"
    /\ now - hie[p].trace[Len(hie[p].trace)].at >= integration_power_cycle_seconds
    /\ hie' = [hie EXCEPT ![p].trace =
                  Append(@, Effect("sleep", "", integration_power_cycle_seconds))]
    /\ pc' = [pc EXCEPT ![p] = "hie_power_on"]
    /\ UNCHANGED <<now, integrations, other_vars, events, sensor_data, kasa, plug, uuids, poll, lsd>>

\* NestIntegrationEvent(...).to_dict() of a successful power cycle
NestIntegrationEvent(event_id, sensor_id, event_type, result, at) ==
    [event_id |-> event_id, sensor_id |-> sensor_id, event_type |-> event_type,
     result |-> result, timestamp |-> at]

\* Mutation: a failed power-on is persisted as an Error event.
PowerOnPhase_PersistsError(p) ==
    /\ pc[p] = "hie_power_on"
    /\ \E status \in KasaOutcomes, ran_on_error \in BOOLEAN :
          /\ (status # Raised => ran_on_error = FALSE)
          /\ plug' = IF SceneRan(status, ran_on_error)
                     THEN [plug EXCEPT ![hie[p].sensor_id] = "on"] ELSE plug
          /\ LET outcome == IF SceneFailed(status) THEN Error ELSE Success
             IN  /\ hie' = [hie EXCEPT ![p] = [hie[p] EXCEPT
                        !.power_cycle_result = outcome,
                        !.trace = Append(Append(@, Effect("run_scene", PowerOn, status)),
                                         Effect("insert", "", uuids + 1))]]
                 /\ events' = Append(events, NestIntegrationEvent(uuids + 1, hie[p].sensor_id,
                                         hie[p].event_type, outcome, timestamp))
          /\ uuids' = uuids + 1
    /\ pc' = [pc EXCEPT ![p] = "hie_alert"]
    /\ UNCHANGED <<now, integrations, other_vars, sensor_data, kasa, poll, lsd>>

\* Mutation: the event of a successful power cycle replaces the device
\* collection's content instead of being added to it.
PowerOnPhase_Replaces(p) ==
    /\ pc[p] = "hie_power_on"
    /\ \E status \in KasaOutcomes, ran_on_error \in BOOLEAN :
          /\ (status # Raised => ran_on_error = FALSE)
          /\ UNCHANGED kasa
          /\ plug' = IF SceneRan(status, ran_on_error)
                     THEN [plug EXCEPT ![hie[p].sensor_id] = "on"] ELSE plug
          /\ LET called == [hie[p] EXCEPT !.trace = Append(@, Effect("run_scene", PowerOn, status))]
                 integration_event == NestIntegrationEvent(uuids + 1, hie[p].sensor_id,
                                         hie[p].event_type, Success, timestamp)
             IN  IF SceneFailed(status)
                 THEN /\ hie' = [hie EXCEPT ![p] = [called EXCEPT
                            !.power_cycle_result = Error,
                            !.message = "An error occurred while sending the request to run the power on scene"]]
                      /\ UNCHANGED <<events, uuids>>
                 ELSE /\ hie' = [hie EXCEPT ![p] = [called EXCEPT
                            !.power_cycle_result = Success,
                            !.message = "The integration event was handled successfully",
                            !.trace = Append(@, Effect("insert", "", uuids + 1))]]
                      /\ events' = <<integration_event>>
                      /\ uuids' = uuids + 1
          /\ pc' = [pc EXCEPT ![p] = "hie_alert"]
    /\ UNCHANGED <<now, integrations, other_vars, sensor_data, poll, lsd>>

\* The power-on phase and, when it succeeds, the insert of the event.
PowerOnPhase(p) ==
    /\ pc[p] = "hie_power_on"
    /\ \E status \in KasaOutcomes, ran_on_error \in BOOLEAN :
          /\ (status # Raised => ran_on_error = FALSE)
          /\ UNCHANGED kasa
          /\ plug' = IF SceneRan(status, ran_on_error)
                     THEN [plug EXCEPT ![hie[p].sensor_id] = "on"] ELSE plug
          /\ LET called == [hie[p] EXCEPT !.trace = Append(@, Effect("run_scene", PowerOn, status))]
                 integration_event == NestIntegrationEvent(uuids + 1, hie[p].sensor_id,
                                         hie[p].event_type, Success, timestamp)
             IN  IF SceneFailed(status)
                 THEN /\ hie' = [hie EXCEPT ![p] = [called EXCEPT
                            !.power_cycle_result = Error,
                            !.message = "An error occurred while sending the request to run the power on scene"]]
                      /\ UNCHANGED <<events, uuids>>
                 ELSE /\ hie' = [hie EXCEPT ![p] = [called EXCEPT
                            !.power_cycle_result = Success,
                            !.message = "The integration event was handled successfully",
                            !.trace = Append(@, Effect("insert", "", uuids + 1))]]
                      /\ events' = Append(events, integration_event)
                      /\ uuids' = uuids + 1
          /\ pc' = [pc EXCEPT ![p] = "hie_alert"]
    /\ UNCHANGED <<now, integrations, other_vars, sensor_data, poll, lsd>>

\* The alert of handle_integration_event: the feature flag is read, and
\* when it is on _send_intergration_event_alert stamps each row with
\* DateTimeUtil.az_local() before it sends the e-mail.
IntegrationEventAlert(p) ==
    /\ pc[p] = "hie_alert"
    /\ \E is_enabled \in BOOLEAN :
          LET asked == [hie[p] EXCEPT !.trace = Append(@, Effect("is_enabled", "", 0))]
          IN  IF is_enabled /\ az_local_raises
              THEN /\ hie' = [hie EXCEPT ![p] = asked]
                   /\ pc' = [pc EXCEPT ![p] = "hie_raised"]
              ELSE /\ hie' = [hie EXCEPT ![p] = [asked EXCEPT
                        !.result = asked.power_cycle_result,
                        !.trace = IF is_enabled
                                  THEN Append(@, Effect("send_datatable_email", "", 0))
                                  ELSE @]]
                   /\ pc' = [pc EXCEPT ![p] = "hie_returned"]
    /\ UNCHANGED <<now, integrations, other_vars, events, sensor_data, kasa, plug, uuids, poll, lsd>>

\* A direct call is over: its response, or its exception, reaches the caller.
HandleIntegrationEventDone(p) ==
    /\ pc[p] \in {"hie_returned", "hie_raised"}
    /\ hie[p].caller = "api"
    /\ pc' = [pc EXCEPT ![p] = "idle"]
    /\ hie' = [hie EXCEPT ![p] = NoFrame]
    /\ UNCHANGED <<now, integrations, other_vars, events, sensor_data, kasa, plug, uuids, poll, lsd>>

\* --------------------------------------------------------- log_sensor_data
\* A sensor id that is not in the Device collection.
UnknownSensor == "s9"

\* NestSensorData(...).to_dict(), reduced to the fields the service reads
NestSensorData(record_id, sensor_id, at) ==
    [record_id |-> record_id, sensor_id |-> sensor_id, timestamp |-> at]

\* Mutation: the record takes the place of the newest stored record.
LogSensorData_Overwrites(p) ==
    /\ pc[p] = "idle"
    /\ now <= MaxTime
    /\ Len(sensor_data) < MaxRecords
    /\ \E sensor_id \in Devices :
          /\ sensor_data' = IF sensor_data = <<>>
                            THEN <<NestSensorData(uuids + 1, sensor_id, timestamp)>>
                            ELSE [sensor_data EXCEPT ![Len(sensor_data)] =
                                     NestSensorData(uuids + 1, sensor_id, timestamp)]
          /\ uuids' = uuids + 1
          /\ lsd' = [lsd EXCEPT ![p] = [sensor_id |-> sensor_id, record_id |-> uuids + 1]]
          /\ pc' = [pc EXCEPT ![p] = "lsd_returned"]
    /\ UNCHANGED <<now, integrations, other_vars, events, kasa, plug, hie, poll>>

\* log_sensor_data: get_device raises for an unknown sensor; otherwise one
\* record with a fresh id and the current timestamp is inserted.
LogSensorData(p) ==
    /\ pc[p] = "idle"
    /\ now <= MaxTime
    /\ Len(sensor_data) < MaxRecords
    /\ \E sensor_id \in Devices \cup {UnknownSensor} :
          IF sensor_id \notin Devices
          THEN /\ pc' = [pc EXCEPT ![p] = "lsd_raised"]
               /\ lsd' = [lsd EXCEPT ![p] = [sensor_id |-> sensor_id, record_id |-> 0]]
               /\ UNCHANGED <<sensor_data, uuids>>
          ELSE /\ sensor_data' = Append(sensor_data, NestSensorData(uuids + 1, sensor_id, timestamp))
               /\ uuids' = uuids + 1
               /\ lsd' = [lsd EXCEPT ![p] = [sensor_id |-> sensor_id, record_id |-> uuids + 1]]
               /\ pc' = [pc EXCEPT ![p] = "lsd_returned"]
    /\ UNCHANGED <<now, integrations, other_vars, events, kasa, plug, hie, poll>>

\* The log_sensor_data call is over.
LogSensorDataDone(p) ==
    /\ pc[p] \in {"lsd_returned", "lsd_raised"}
    /\ pc' = [pc EXCEPT ![p] = "idle"]
    /\ lsd' = [lsd EXCEPT ![p] = NoLog]
    /\ UNCHANGED <<now, integrations, other_vars, events, sensor_data, kasa, plug, uuids, hie, poll>>

\* ------------------------------------------ get_sensor_info, poll_sensor_status
\* Python's order of the strings that are sort keys.
StringOrder == <<"a-sensor", "b-sensor", "s1", "s2">>

StrIndex(str) == CHOOSE i \in 1..Len(StringOrder) : StringOrder[i] = str

\* list.sort(key=...) is stable: an item goes after the items whose key is
\* not greater.
SortInsert(sorted, item, key) ==
    LET k == Cardinality({i \in 1..Len(sorted) : StrIndex(sorted[i][key]) <= StrIndex(item[key])})
    IN  SubSeq(sorted, 1, k) \o <<item>> \o SubSeq(sorted, k + 1, Len(sorted))

\* Mutation: the list is returned in the order it was built.
SortByKey_Unsorted(list, key) == list

RECURSIVE SortByKey(_, _)
SortByKey(list, key) ==
    IF list = <<>> THEN <<>>
    ELSE SortInsert(SortByKey(SubSeq(list, 1, Len(list) - 1), key), list[Len(list)], key)

\* NestSensorRepository.get_top_sensor_record / NestService.__get_top_sensor_record:
\* no record (None), or the newest record of the device
get_top_sensor_record(device_id) == FindNewest(BySensor(sensor_data, device_id))

\* Mutation: the threshold itself still counts as healthy.
get_health_status_Exclusive(last_record) ==
    IF last_record = {}
    THEN [raised |-> TRUE, status |-> "", seconds_elapsed |-> 0, last_contact |-> 0]
    ELSE LET record == CHOOSE r \in last_record : TRUE
             seconds_elapsed == timestamp - record.timestamp
         IN  [raised |-> FALSE,
              status |-> IF seconds_elapsed > SENSOR_UNHEALTHY_SECONDS
                         THEN Unhealthy ELSE Healthy,
              seconds_elapsed |-> seconds_elapsed,
              last_contact |-> record.timestamp]

\* NestService.__get_health_status. It reads record.timestamp, which raises
\* AttributeError when the record is None.
get_health_status(last_record) ==
    IF last_record = {}
    THEN [raised |-> TRUE, status |-> "", seconds_elapsed |-> 0, last_contact |-> 0]
    ELSE LET record == CHOOSE r \in last_record : TRUE
             seconds_elapsed == timestamp - record.timestamp
         IN  [raised |-> FALSE,
              status |-> IF seconds_elapsed >= SENSOR_UNHEALTHY_SECONDS
                         THEN Unhealthy ELSE Healthy,
              seconds_elapsed |-> seconds_elapsed,
              last_contact |-> record.timestamp]

\* SensorHealth with its SensorHealthStats
SensorHealth(device_id, stats) ==
    [device_id |-> device_id, device_name |-> device_name[device_id],
     status |-> stats.status, last_contact |-> stats.last_contact,
     seconds_elapsed |-> stats.seconds_elapsed]

\* get_sensor_info is entered, by its route ("info") or by
\* poll_sensor_status ("poll"): one health-check task per device.
get_sensor_info(p, op) ==
    /\ pc[p] = "idle"
    /\ now <= MaxTime
    /\ Len(events) < MaxEvents
    /\ poll' = [poll EXCEPT ![p] = [NoPoll EXCEPT !.op = op, !.pending = Devices]]
    /\ pc' = [pc EXCEPT ![p] = "gsi_tasks"]
    /\ UNCHANGED <<now, integrations, other_vars, events, sensor_data, kasa, plug, uuids, hie, lsd>>

CallGetSensorInfo(p) == get_sensor_info(p, "info")

CallPollSensorStatus(p) == get_sensor_info(p, "poll")

\* handle_sensor_health_check of one device runs; the tasks complete in any
\* order. An exception of a task leaves TaskCollection.run, and with it
\* get_sensor_info and its caller.
HandleSensorHealthCheck(p) ==
    /\ pc[p] = "gsi_tasks"
    /\ \E device_id \in poll[p].pending :
          LET stats == get_health_status(get_top_sensor_record(device_id))
          IN  IF stats.raised
              THEN /\ pc' = [pc EXCEPT ![p] = "gsi_raised"]
                   /\ poll' = [poll EXCEPT ![p].pending = @ \ {device_id}]
              ELSE /\ pc' = pc
                   /\ poll' = [poll EXCEPT ![p].pending = @ \ {device_id},
                                  ![p].device_health = Append(@, SensorHealth(device_id, stats))]
    /\ UNCHANGED <<now, integrations, other_vars, events, sensor_data, kasa, plug, uuids, hie, lsd>>

\* Mutation: get_sensor_info goes on without waiting for its tasks.
JoinSensorInfo_NoJoin(p) ==
    /\ pc[p] = "gsi_tasks"
    /\ poll' = [poll EXCEPT ![p].sensors = SortByKey(poll[p].device_health, "device_name"),
                            ![p].idx = 1]
    /\ pc' = [pc EXCEPT ![p] = IF poll[p].op = "info" THEN "gsi_returned" ELSE "poll_loop"]
    /\ UNCHANGED <<now, integrations, other_vars, events, sensor_data, kasa, plug, uuids, hie, lsd>>

\* All tasks are joined: the verdicts are sorted by device name.
JoinSensorInfo(p) ==
    /\ pc[p] = "gsi_tasks"
    /\ poll[p].pending = {}
    /\ poll' = [poll EXCEPT ![p].sensors = SortByKey(poll[p].device_health, "device_name"),
                            ![p].idx = 1]
    /\ pc' = [pc EXCEPT ![p] = IF poll[p].op = "info" THEN "gsi_returned" ELSE "poll_loop"]
    /\ UNCHANGED <<now, integrations, other_vars, events, sensor_data, kasa, plug, uuids, hie, lsd>>

\* SensorPollResult
SensorPollResult(device_id, is_healthy, integration) ==
    [device_id |-> device_id, is_healthy |-> is_healthy, integration |-> integration]

\* One turn of the loop of poll_sensor_status, up to its first await: a
\* healthy sensor is skipped, an unhealthy one with integration config
\* goes to handle_integration_event, and after the last sensor the
\* results are sorted by device id and returned.
PollNextSensor(p) ==
    /\ pc[p] = "poll_loop"
    /\ LET frame == poll[p]
       IN  IF frame.idx > Len(frame.sensors)
           THEN /\ poll' = [poll EXCEPT ![p].results = SortByKey(@, "device_id")]
                /\ pc' = [pc EXCEPT ![p] = "poll_returned"]
                /\ hie' = hie
           ELSE LET sensor_health == frame.sensors[frame.idx]
                    is_unhealthy == sensor_health.status # Healthy
                IN  IF ~is_unhealthy
                    THEN /\ poll' = [poll EXCEPT ![p].idx = @ + 1]
                         /\ UNCHANGED <<pc, hie>>
                    ELSE IF is_device_integration_supported(sensor_health.device_id)
                    THEN /\ handle_integration_event(p, sensor_health.device_id, PowerCycle, "poll")
                         /\ poll' = [poll EXCEPT ![p].calls = Append(@, sensor_health.device_id)]
                    ELSE /\ pc' = [pc EXCEPT ![p] = "poll_alert"]
                         /\ UNCHANGED <<poll, hie>>
    /\ UNCHANGED <<now, integrations, other_vars, events, sensor_data, kasa, plug, uuids, lsd>>

\* handle_integration_event returned to poll_sensor_status: its result is
\* attached to the poll result of the device.
PollIntegrationResult(p) ==
    /\ pc[p] = "hie_returned"
    /\ hie[p].caller = "poll"
    /\ poll' = [poll EXCEPT ![p].integration = hie[p].result]
    /\ hie' = [hie EXCEPT ![p] = NoFrame]
    /\ pc' = [pc EXCEPT ![p] = "poll_alert"]
    /\ UNCHANGED <<now, integrations, other_vars, events, sensor_data, kasa, plug, uuids, lsd>>

\* handle_integration_event raised: the exception leaves poll_sensor_status.
PollIntegrationRaised(p) ==
    /\ pc[p] = "hie_raised"
    /\ hie[p].caller = "poll"
    /\ hie' = [hie EXCEPT ![p] = NoFrame]
    /\ pc' = [pc EXCEPT ![p] = "poll_raised"]
    /\ UNCHANGED <<now, integrations, other_vars, events, sensor_data, kasa, plug, uuids, poll, lsd>>

\* The sensor-failure alert of the unhealthy sensor, when the feature flag
\* is on, and the append of its poll result.
PollAlert(p) ==
    /\ pc[p] = "poll_alert"
    /\ \E is_alert_enabled \in BOOLEAN :
          LET frame == poll[p]
              device_id == frame.sensors[frame.idx].device_id
          IN  poll' = [poll EXCEPT
                  ![p].alerts = IF is_alert_enabled THEN Append(@, device_id) ELSE @,
                  ![p].flags = Append(@, [device_id |-> device_id, enabled |-> is_alert_enabled]),
                  ![p].results = Append(@, SensorPollResult(device_id, FALSE, frame.integration)),
                  ![p].integration = "",
                  ![p].idx = @ + 1]
    /\ pc' = [pc EXCEPT ![p] = "poll_loop"]
    /\ UNCHANGED <<now, integrations, other_vars, events, sensor_data, kasa, plug, uuids, hie, lsd>>

\* The get_sensor_info or poll_sensor_status call is over.
PollDone(p) ==
    /\ pc[p] \in {"gsi_returned", "gsi_raised", "poll_returned", "poll_raised"}
    /\ pc' = [pc EXCEPT ![p] = "idle"]
    /\ poll' = [poll EXCEPT ![p] = NoPoll]
    /\ UNCHANGED <<now, integrations, other_vars, events, sensor_data, kasa, plug, uuids, hie, lsd>>

\* ------------------------------------------------------ NestCommandService
\* The temperatures, in degrees Fahrenheit, a request may carry.
Temperatures == {59, 60, 80, 81}

\* What params.get(key) gives: {} for None (the key is absent), else {t}.
OptionalTemperature == {{}} \cup {{t} : t \in Temperatures}

\* The params of a request.
Params == [heat_degrees_fahrenheit : OptionalTemperature,
           cool_degrees_fahrenheit : OptionalTemperature]

\* The temperature of a params value that is not None.
Degrees(value) == CHOOSE t \in value : TRUE

\* utils.to_celsius with round_digits = 2, in hundredths of a degree:
\* round((f - 32) * 5/9, 2); ninths never fall on a rounding tie.
to_celsius(degrees_fahrenheit) == ((degrees_fahrenheit - 32) * 1000 + 9) \div 18

\* One side effect of a handle_command call, in call order.
CommandEffect(op, arg, heatCelsius, coolCelsius) ==
    [op |-> op, arg |-> arg, heatCelsius |-> heatCelsius, coolCelsius |-> coolCelsius]

\* The fire-and-forget tasks: cache_client.set_cache(key, mode) and
\* cache_client.delete_key(key).
set_cache(value) == [op |-> "set_cache", value |-> value]

delete_key == [op |-> "delete_key", value |-> None]

\* Mutation: the maximum is tested one degree too high.
exceeds_maximum_Lenient(heat_degrees_fahrenheit) ==
    heat_degrees_fahrenheit > maximum_allowed_temperature + 1

\* The test of set_heat and set_range against the maximum.
exceeds_maximum(heat_degrees_fahrenheit) ==
    heat_degrees_fahrenheit > maximum_allowed_temperature

\* The test of set_cool and set_range against the minimum.
below_minimum(cool_degrees_fahrenheit) ==
    cool_degrees_fahrenheit < minimum_allowed_temperature

\* What a handler does before its first await: the exception it raises
\* ("" for none; comparing None with a number raises TypeError) and the
\* mode it asks of set_thermostat_mode.
set_heat(params) ==
    IF params.heat_degrees_fahrenheit = {} THEN [raised |-> "TypeError", mode |-> ""]
    ELSE IF exceeds_maximum(Degrees(params.heat_degrees_fahrenheit))
    THEN [raised |-> "NestThermostatTemperatureException", mode |-> ""]
    ELSE [raised |-> "", mode |-> Heat]

set_cool(params) ==
    IF params.cool_degrees_fahrenheit = {} THEN [raised |-> "TypeError", mode |-> ""]
    ELSE IF below_minimum(Degrees(params.cool_degrees_fahrenheit))
    THEN [raised |-> "Exception", mode |-> ""]
    ELSE [raised |-> "", mode |-> Cool]

set_range(params) ==
    IF params.heat_degrees_fahrenheit = {} THEN [raised |-> "TypeError", mode |-> ""]
    ELSE IF exceeds_maximum(Degrees(params.heat_degrees_fahrenheit))
    THEN [raised |-> "NestThermostatTemperatureException", mode |-> ""]
    ELSE IF params.cool_degrees_fahrenheit = {} THEN [raised |-> "TypeError", mode |-> ""]
    ELSE IF below_minimum(Degrees(params.cool_degrees_fahrenheit))
    THEN [raised |-> "NestThermostatTemperatureException", mode |-> ""]
    ELSE [raised |-> "", mode |-> Range]

set_power_off == [raised |-> "", mode |-> Off]

\* NestCommandService.__delegate_command: the match statement. Its fifth
\* case repeats the pattern SetPowerOff of the first and is never taken.
delegate_command(command_type, params) ==
    CASE command_type = SetPowerOff -> set_power_off
      [] command_type = SetCool -> set_cool(params)
      [] command_type = SetHeat -> set_heat(params)
      [] command_type = SetRange -> set_range(params)
      [] OTHER -> [raised |-> "NestThermostatUnknownCommandException", mode |-> ""]

\* A command_type that is not a value of NestCommandType.
UnknownCommandType == "set-fan"

\* handle_command: the request is delegated; a handler that does not raise
\* goes on to set_thermostat_mode.
HandleCommand(p) ==
    /\ pc[p] = "idle"
    /\ Len(tasks) + 2 <= MaxTasks
    /\ \E command_type \in NestCommandType \cup {UnknownCommandType}, params \in Params :
          LET handler == delegate_command(command_type, params)
              frame == [NoCommand EXCEPT !.command_type = command_type, !.params = params,
                                         !.mode = handler.mode, !.raised = handler.raised,
                                         !.actual = thermostat]
          IN  /\ cmd' = [cmd EXCEPT ![p] = frame]
              /\ pc' = [pc EXCEPT ![p] = IF handler.raised # "" THEN "cmd_raised"
                                         ELSE "stm_get_cache"]
    /\ UNCHANGED <<sensor_vars, thermostat, cache, tasks, identity_vars, query_vars>>

\* Where a handler goes on when set_thermostat_mode has returned.
AfterSetThermostatMode(command_type) ==
    IF command_type = SetPowerOff THEN "cmd_returned" ELSE "cmd_execute"

\* set_thermostat_mode once it has the current mode: nothing to do when it
\* is the requested one, else the cache-bust task is created and the
\* set-mode command is next.
CompareMode(p, frame, created) ==
    IF frame.current_mode = frame.mode
    THEN /\ cmd' = [cmd EXCEPT ![p] = frame]
         /\ tasks' = tasks \o created
         /\ pc' = [pc EXCEPT ![p] = AfterSetThermostatMode(frame.command_type)]
    ELSE /\ cmd' = [cmd EXCEPT ![p] = [frame EXCEPT !.trace =
                        Append(@, CommandEffect("create_task", "delete_key", 0, 0))]]
         /\ tasks' = (tasks \o created) \o <<delete_key>>
         /\ pc' = [pc EXCEPT ![p] = "stm_execute"]

\* __get_active_thermostat_mode: the cache is read; a cached mode is the
\* current mode.
GetCachedMode(p) ==
    /\ pc[p] = "stm_get_cache"
    /\ LET read == [cmd[p] EXCEPT !.trace = Append(@, CommandEffect("get_cache", cache, 0, 0))]
       IN  IF ~none_or_whitespace(cache)
           THEN CompareMode(p, [read EXCEPT !.current_mode = cache], <<>>)
           ELSE /\ cmd' = [cmd EXCEPT ![p] = read]
                /\ pc' = [pc EXCEPT ![p] = "stm_get_thermostat"]
                /\ tasks' = tasks
    /\ UNCHANGED <<sensor_vars, thermostat, cache, identity_vars, query_vars>>

\* __get_active_thermostat_mode after a cache miss: the thermostat is read
\* and the task that caches its mode is created.
GetThermostat(p) ==
    /\ pc[p] = "stm_get_thermostat"
    /\ LET read == [cmd[p] EXCEPT !.current_mode = thermostat,
                                  !.trace = Append(Append(@,
                                      CommandEffect("get_thermostat", thermostat, 0, 0)),
                                      CommandEffect("create_task", "set_cache", 0, 0))]
       IN  CompareMode(p, read, <<set_cache(thermostat)>>)
    /\ UNCHANGED <<sensor_vars, thermostat, cache, identity_vars, query_vars>>

\* set_thermostat_mode sends the set-mode command: the thermostat changes
\* its mode.
ExecuteSetMode(p) ==
    /\ pc[p] = "stm_execute"
    /\ thermostat' = cmd[p].mode
    /\ cmd' = [cmd EXCEPT ![p].trace = Append(@,
                  CommandEffect("execute_command", NestCommandTypeMapping[SetPowerOff], 0, 0))]
    /\ pc' = [pc EXCEPT ![p] = IF cmd[p].command_type = SetPowerOff THEN "cmd_returned"
                               ELSE "stm_sleep"]
    /\ UNCHANGED <<sensor_vars, cache, tasks, identity_vars, query_vars>>

\* asyncio.sleep(delay_seconds) of set_thermostat_mode, one second by
\* default: less than the clock's granularity.
SetModeDelay(p) ==
    /\ pc[p] = "stm_sleep"
    /\ pc' = [pc EXCEPT ![p] = AfterSetThermostatMode(cmd[p].command_type)]
    /\ UNCHANGED <<sensor_vars, command_vars, identity_vars, query_vars>>

\* set_heat, set_cool, set_range send their temperature command.
ExecuteTemperature(p) ==
    /\ pc[p] = "cmd_execute"
    /\ LET frame == cmd[p]
           heat == IF frame.command_type \in {SetHeat, SetRange}
                   THEN to_celsius(Degrees(frame.params.heat_degrees_fahrenheit)) ELSE 0
           cool == IF frame.command_type \in {SetCool, SetRange}
                   THEN to_celsius(Degrees(frame.params.cool_degrees_fahrenheit)) ELSE 0
       IN  cmd' = [cmd EXCEPT ![p].trace = Append(@,
                      CommandEffect("execute_command",
                                    NestCommandTypeMapping[frame.command_type], heat, cool))]
    /\ pc' = [pc EXCEPT ![p] = "cmd_returned"]
    /\ UNCHANGED <<sensor_vars, thermostat, cache, tasks, identity_vars, query_vars>>

\* One of the fire-and-forget tasks is done: the tasks await the cache
\* server and complete in any order.
RunCacheTask ==
    /\ \E i \in 1..Len(tasks) :
          /\ cache' = IF tasks[i].op = "set_cache" THEN tasks[i].value ELSE None
          /\ tasks' = SubSeq(tasks, 1, i - 1) \o SubSeq(tasks, i + 1, Len(tasks))
    /\ UNCHANGED <<sensor_vars, pc, thermostat, cmd, identity_vars, query_vars>>

\* The handle_command call is over.
HandleCommandDone(p) ==
    /\ pc[p] \in {"cmd_returned", "cmd_raised"}
    /\ pc' = [pc EXCEPT ![p] = "idle"]
    /\ cmd' = [cmd EXCEPT ![p] = NoCommand]
    /\ UNCHANGED <<sensor_vars, thermostat, cache, tasks, identity_vars, query_vars>>

\* ---------------------------------------------------------- IdentityClient
\* domain.auth.ClientScope
EmailGatewayApi == "api://4ff83655-c28e-478f-b384-08ca8e98a811/.default"

TwilioGatewayApi == "api://608043f8-87a6-46bd-ab49-1b73de73a6ec/.default"

AzureGatewayApi == "api://a6d4c26f-f77c-41dc-b732-eb82ac0fbe39/.default"

ClientScope == {EmailGatewayApi, TwilioGatewayApi, AzureGatewayApi}

\* The scopes get_token is called with: None for the default.
Scopes == {None, EmailGatewayApi, TwilioGatewayApi}

\* The client of configuration.ad_auth.clients, and a name that is not one.
RegisteredClient == "nest-api"

UnregisteredClient == "no-client"

\* AuthClientConfig.to_dict for a configured client: the form of the token
\* request. The key 'scope' is absent: {}.
AuthClientConfig(name) ==
    [client_id |-> name, grant_type |-> "client_credentials", scopes |-> "", scope |-> {}]

\* IdentityClient.__register_clients: add_client for each configured client.
register_clients == [name \in {RegisteredClient} |-> AuthClientConfig(name)]

\* CacheKey.auth_token(client, scope): one key per pair.
auth_token(client, scope) == <<client, scope>>

\* The token the identity provider issues for a form.
access_token(data) == [client_id |-> data.client_id, scope |-> data.scope]

\* `client_credentials |= {'scope': scope}`: the dict that is updated in
\* place is the one registered under the name.
SetScope(registered, name, scope) == [registered EXCEPT ![name].scope = {scope}]

\* get_token up to the post: a cached token is returned; an unknown client
\* raises; else the scope, if one is given, is set on the credentials.
GetToken(p) ==
    /\ pc[p] = "idle"
    /\ Cardinality(token_tasks) < MaxTasks
    /\ \E client_name \in {RegisteredClient, UnregisteredClient}, scope \in Scopes :
          LET cache_key == auth_token(client_name, scope)
              frame == [NoToken EXCEPT !.client_name = client_name, !.scope = scope]
          IN  IF cache_key \in DOMAIN token_cache
              THEN /\ idc' = [idc EXCEPT ![p] = [frame EXCEPT !.token = {token_cache[cache_key]}]]
                   /\ pc' = [pc EXCEPT ![p] = "idc_returned"]
                   /\ clients' = clients
              ELSE IF client_name \notin DOMAIN clients
              THEN /\ idc' = [idc EXCEPT ![p] = [frame EXCEPT !.raised = "AuthClientNotFoundException"]]
                   /\ pc' = [pc EXCEPT ![p] = "idc_raised"]
                   /\ clients' = clients
              ELSE /\ clients' = IF ~none_or_whitespace(scope)
                                 THEN SetScope(clients, client_name, scope) ELSE clients
                   /\ idc' = [idc EXCEPT ![p] = [frame EXCEPT !.data = {clients'[client_name]}]]
                   /\ pc' = [pc EXCEPT ![p] = "idc_post"]
    /\ UNCHANGED <<sensor_vars, command_vars, query_vars, token_cache, token_tasks>>

\* The post to the identity provider answers: an error raises, else the
\* token is returned and the task that caches it is created.
PostTokenRequest(p) ==
    /\ pc[p] = "idc_post"
    /\ \E is_error \in BOOLEAN :
          IF is_error
          THEN /\ idc' = [idc EXCEPT ![p].raised = "AuthTokenFailureException"]
               /\ pc' = [pc EXCEPT ![p] = "idc_raised"]
               /\ token_tasks' = token_tasks
          ELSE LET frame == idc[p]
                   token == access_token(CHOOSE data \in frame.data : TRUE)
               IN  /\ idc' = [idc EXCEPT ![p].token = {token}]
                   /\ pc' = [pc EXCEPT ![p] = "idc_returned"]
                   /\ token_tasks' = token_tasks \cup
                          {[key |-> auth_token(frame.client_name, frame.scope), value |-> token]}
    /\ UNCHANGED <<sensor_vars, command_vars, query_vars, clients, token_cache>>

\* One of the fire-and-forget set_cache tasks is done.
CacheToken ==
    /\ \E task \in token_tasks :
          /\ token_cache' = [key \in DOMAIN token_cache \cup {task.key} |->
                                IF key = task.key THEN task.value ELSE token_cache[key]]
          /\ token_tasks' = token_tasks \ {task}
    /\ UNCHANGED <<sensor_vars, pc, command_vars, query_vars, clients, idc>>

\* A cached token reaches its ttl.
ExpireToken ==
    /\ \E expired \in DOMAIN token_cache :
          token_cache' = [key \in DOMAIN token_cache \ {expired} |-> token_cache[key]]
    /\ UNCHANGED <<sensor_vars, pc, command_vars, query_vars, clients, token_tasks, idc>>

\* The get_token call is over.
GetTokenDone(p) ==
    /\ pc[p] \in {"idc_returned", "idc_raised"}
    /\ pc' = [pc EXCEPT ![p] = "idle"]
    /\ idc' = [idc EXCEPT ![p] = NoToken]
    /\ UNCHANGED <<sensor_vars, command_vars, query_vars, clients, token_cache, token_tasks>>

\* ------------------------------------------------- get_integration_events
\* What pandas puts in the device columns of an event no device matches.
NaN == "nan"

\* Mutation: the lower end of the range is inclusive.
GetIntegarationEventsQuery_FromStart(entity, start_timestamp, end_timestamp, sensor_id) ==
    /\ entity.timestamp >= start_timestamp
    /\ entity.timestamp <= end_timestamp
    /\ sensor_id # None => entity.sensor_id = sensor_id

\* GetIntegarationEventsQuery.get_query: timestamp $gt start and $lte end,
\* and the sensor_id if one is given.
GetIntegarationEventsQuery(entity, start_timestamp, end_timestamp, sensor_id) ==
    /\ entity.timestamp > start_timestamp
    /\ entity.timestamp <= end_timestamp
    /\ sensor_id # None => entity.sensor_id = sensor_id

\* NestIntegrationRepository.get_integration_events: find(query).to_list
get_integration_events(start_timestamp, end_timestamp, sensor_id) ==
    LET Matches(entity) ==
            GetIntegarationEventsQuery(entity, start_timestamp, end_timestamp, sensor_id)
    IN  SelectSeq(events, Matches)

\* _merge_devices_on_events and IntegrationEventResponse.from_dict: a left
\* merge of the events with the devices on sensor_id = device_id.
merge_devices_on_events(entities) ==
    [i \in 1..Len(entities) |->
        [event_id |-> entities[i].event_id,
         device_id |-> entities[i].sensor_id,
         device_name |-> IF entities[i].sensor_id \in Devices
                         THEN device_name[entities[i].sensor_id] ELSE NaN,
         event_type |-> entities[i].event_type,
         result |-> entities[i].result,
         timestamp |-> entities[i].timestamp]]

\* df.sort_values(by='timestamp', ascending=False): the default sort is not
\* stable, rows of equal timestamp come in any order.
sort_values(rows) ==
    {[i \in 1..Len(rows) |-> rows[order[i]]] :
        order \in {o \in [1..Len(rows) -> 1..Len(rows)] :
                     /\ \A i, j \in 1..Len(rows) : i # j => o[i] # o[j]
                     /\ \A i, j \in 1..Len(rows) :
                           i < j => rows[o[i]].timestamp >= rows[o[j]].timestamp}}

\* The days_back and sensor_id of a query.
DaysBack == {0, 1, 2}

\* NestIntegrationService.get_integration_events
GetIntegrationEvents(p) ==
    /\ pc[p] = "idle"
    /\ \E days_back \in DaysBack, sensor_id \in {None, "s1", UnknownSensor} :
          LET end_timestamp == timestamp
              start_timestamp == end_timestamp - (days_back * 24 * 60 * 60)
              entities == get_integration_events(start_timestamp, end_timestamp, sensor_id)
          IN  \E returned \in IF entities = <<>> THEN {<<>>}
                               ELSE sort_values(merge_devices_on_events(entities)) :
                  gie' = [gie EXCEPT ![p] = [days_back |-> days_back, sensor_id |-> sensor_id,
                                            returned |-> returned]]
    /\ pc' = [pc EXCEPT ![p] = "gie_returned"]
    /\ UNCHANGED <<sensor_vars, command_vars, identity_vars>>

\* The get_integration_events call is over: the route has its response.
GetIntegrationEventsDone(p) ==
    /\ pc[p] = "gie_returned"
    /\ pc' = [pc EXCEPT ![p] = "idle"]
    /\ UNCHANGED <<sensor_vars, command_vars, identity_vars, query_vars>>

\* ------------------------------------------------------------ specifications
\* The steps of a handle_integration_event call of worker p.
HandleSteps(p) ==
    \/ GetLatestEvent(p)
    \/ PowerOffPhase(p)
    \/ Sleep(p)
    \/ PowerOnPhase(p)
    \/ IntegrationEventAlert(p)

\* Direct calls of handle_integration_event by one worker: the calls do not
\* overlap.
Next ==
    \/ Tick
    \/ CallHandleIntegrationEvent(1)
    \/ HandleSteps(1)
    \/ HandleIntegrationEventDone(1)

Spec == Init /\ [][Next]_vars

\* The sensors' configurations of the polling specification.
InitPoll ==
    /\ now = 0
    /\ events = <<>>
    /\ sensor_data = <<>>
    /\ kasa = [d \in Devices |-> -1]
    /\ plug = [d \in Devices |-> "on"]
    /\ uuids = 0
    /\ pc = [p \in Procs |-> "idle"]
    /\ hie = [p \in Procs |-> NoFrame]
    /\ poll = [p \in Procs |-> NoPoll]
    /\ lsd = [p \in Procs |-> NoLog]
    /\ InitOthers
    /\ integrations \in
          { [d \in {"s1", "s2"} |-> <<Integration(Plug, BothScenes)>>],
            [d \in {"s2"} |-> <<Integration(Plug, BothScenes)>>],
            [d \in {"s1", "s2"} |-> IF d = "s1" THEN <<Integration(Fan, BothScenes)>>
                                    ELSE <<Integration(Plug, [device_off |-> "off-scene"])>>] }

\* Telemetry ingestion, get_sensor_info and poll_sensor_status by one
\* worker: the calls do not overlap.
NextPoll ==
    \/ Tick
    \/ LogSensorData(1)
    \/ LogSensorDataDone(1)
    \/ CallGetSensorInfo(1)
    \/ CallPollSensorStatus(1)
    \/ HandleSensorHealthCheck(1)
    \/ JoinSensorInfo(1)
    \/ PollNextSensor(1)
    \/ HandleSteps(1)
    \/ PollIntegrationResult(1)
    \/ PollIntegrationRaised(1)
    \/ PollAlert(1)
    \/ PollDone(1)

SpecPoll == InitPoll /\ [][NextPoll]_vars

\* Two workers with valid plug configurations for both sensors.
InitRace ==
    /\ Init
    /\ integrations = [d \in {"s1", "s2"} |-> <<Integration(Plug, BothScenes)>>]

\* Two pollers whose triggers overlap find the same sensor unhealthy: each
\* calls handle_integration_event(device, PowerCycle) for it, once, as
\* poll_sensor_status does.
CallOverlapping(p) ==
    /\ pc[p] = "idle"
    /\ hie[p] = NoFrame
    /\ now <= MaxOverlapStart
    /\ Len(events) < MaxEvents
    /\ handle_integration_event(p, "s1", PowerCycle, "api")
    /\ UNCHANGED <<now, integrations, other_vars, events, sensor_data, kasa, plug, uuids, poll, lsd>>

\* The clock advances while the pollers' triggers may still overlap.
TickOverlap == Tick /\ now < MaxOverlapStart

\* Overlapping handle_integration_event calls: the coroutines of the two
\* workers interleave at every await.
NextRace ==
    \/ TickOverlap
    \/ \E p \in Procs :
          \/ CallOverlapping(p)
          \/ HandleSteps(p)
          \/ SleepElapsed(p)

SpecRace == InitRace /\ [][NextRace]_vars

\* The thermostat in any mode, the cache empty or in step with it.
InitCommand ==
    /\ now = 0
    /\ integrations = [d \in {"s1", "s2"} |-> <<Integration(Plug, BothScenes)>>]
    /\ events = <<>>
    /\ sensor_data = <<>>
    /\ kasa = [d \in Devices |-> -1]
    /\ plug = [d \in Devices |-> "on"]
    /\ uuids = 0
    /\ pc = [p \in Procs |-> "idle"]
    /\ hie = [p \in Procs |-> NoFrame]
    /\ poll = [p \in Procs |-> NoPoll]
    /\ lsd = [p \in Procs |-> NoLog]
    /\ thermostat \in ThermostatMode
    /\ cache \in {None, thermostat}
    /\ tasks = <<>>
    /\ cmd = [p \in Procs |-> NoCommand]
    /\ clients = <<>>
    /\ token_cache = <<>>
    /\ token_tasks = {}
    /\ idc = [p \in Procs |-> NoToken]
    /\ gie = [p \in Procs |-> NoQuery]

\* Thermostat commands by one worker: the calls do not overlap, the cache
\* tasks run in the background.
NextCommand ==
    \/ HandleCommand(1)
    \/ GetCachedMode(1)
    \/ GetThermostat(1)
    \/ ExecuteSetMode(1)
    \/ SetModeDelay(1)
    \/ ExecuteTemperature(1)
    \/ RunCacheTask
    \/ HandleCommandDone(1)

SpecCommand == InitCommand /\ [][NextCommand]_vars

\* The identity client after construction: the configured client is
\* registered, no token is cached.
InitIdentity ==
    /\ now = 0
    /\ integrations = [d \in {"s1", "s2"} |-> <<Integration(Plug, BothScenes)>>]
    /\ events = <<>>
    /\ sensor_data = <<>>
    /\ kasa = [d \in Devices |-> -1]
    /\ plug = [d \in Devices |-> "on"]
    /\ uuids = 0
    /\ pc = [p \in Procs |-> "idle"]
    /\ hie = [p \in Procs |-> NoFrame]
    /\ poll = [p \in Procs |-> NoPoll]
    /\ lsd = [p \in Procs |-> NoLog]
    /\ thermostat = Off
    /\ cache = None
    /\ tasks = <<>>
    /\ cmd = [p \in Procs |-> NoCommand]
    /\ clients = register_clients
    /\ token_cache = <<>>
    /\ token_tasks = {}
    /\ idc = [p \in Procs |-> NoToken]
    /\ gie = [p \in Procs |-> NoQuery]

\* Token requests by one worker: the calls do not overlap, the cache
\* writes run in the background and the cached tokens expire.
NextIdentity ==
    \/ GetToken(1)
    \/ PostTokenRequest(1)
    \/ CacheToken
    \/ ExpireToken
    \/ GetTokenDone(1)

SpecIdentity == InitIdentity /\ [][NextIdentity]_vars

\* How long before the query the stored events were persisted.
EventAges == {0, 86399, 86400, 172800}

\* The stored events a query is run against: of any age, of a device or of
\* a sensor that is no device any more, with distinct event ids.
StoredEvents ==
    UNION {[1..n -> [event_id : {0}, sensor_id : {"s1", "s2", UnknownSensor},
                     event_type : {PowerCycle}, result : {Success},
                     timestamp : {QueryTime - age : age \in EventAges}]] : n \in 0..MaxStored}

InitEvents ==
    /\ now = QueryTime
    /\ integrations = [d \in {"s1", "s2"} |-> <<Integration(Plug, BothScenes)>>]
    /\ events \in {[i \in DOMAIN stored |-> [stored[i] EXCEPT !.event_id = i]] :
                      stored \in StoredEvents}
    /\ sensor_data = <<>>
    /\ kasa = [d \in Devices |-> -1]
    /\ plug = [d \in Devices |-> "on"]
    /\ uuids = 0
    /\ pc = [p \in Procs |-> "idle"]
    /\ hie = [p \in Procs |-> NoFrame]
    /\ poll = [p \in Procs |-> NoPoll]
    /\ lsd = [p \in Procs |-> NoLog]
    /\ InitOthers

\* Event queries by one worker.
NextEvents ==
    \/ GetIntegrationEvents(1)
    \/ GetIntegrationEventsDone(1)

SpecEvents == InitEvents /\ [][NextEvents]_vars

\* Both sensors have gone silent: each has one record, as old as the
\* unhealthy threshold, and a valid plug configuration.
InitRecover ==
    /\ now = SENSOR_UNHEALTHY_SECONDS
    /\ integrations = [d \in {"s1", "s2"} |-> <<Integration(Plug, BothScenes)>>]
    /\ events = <<>>
    /\ sensor_data = <<NestSensorData(1, "s1", 0), NestSensorData(2, "s2", 0)>>
    /\ kasa = [d \in Devices |-> -1]
    /\ plug = [d \in Devices |-> "on"]
    /\ uuids = 2
    /\ pc = [p \in Procs |-> "idle"]
    /\ hie = [p \in Procs |-> NoFrame]
    /\ poll = [p \in Procs |-> NoPoll]
    /\ lsd = [p \in Procs |-> NoLog]
    /\ InitOthers

\* The scheduler's polls, one after the other; no telemetry arrives, and
\* the clock advances with the sleeps of the power cycles.
NextRecover ==
    \/ CallPollSensorStatus(1)
    \/ HandleSensorHealthCheck(1)
    \/ JoinSensorInfo(1)
    \/ PollNextSensor(1)
    \/ HandleSteps(1)
    \/ PollIntegrationResult(1)
    \/ PollIntegrationRaised(1)
    \/ PollAlert(1)
    \/ PollDone(1)

\* run_scene answers the power-off request of a device's cycle with 200.
PowerOffSucceeds(d) ==
    PowerOffPhase(1) /\ hie[1].sensor_id = d /\ pc'[1] = "hie_sleep"

\* run_scene answers the power-on request of a device's cycle with 200.
PowerOnSucceeds(d) ==
    PowerOnPhase(1) /\ hie[1].sensor_id = d /\ hie'[1].power_cycle_result = Success

\* run_scene does not fail for ever on the scenes of a device.
RunSceneEventuallySucceeds(d) ==
    SF_vars(PowerOffSucceeds(d)) /\ SF_vars(PowerOnSucceeds(d))

\* Polls keep occurring, and a coroutine that can run does: the
\* scheduler's trigger and the event loop.
FairRecover == WF_vars(NextRecover)

SpecRecover == InitRecover /\ [][NextRecover]_vars /\ FairRecover

\* ------------------------------------------------------------------ claims
\* What the claims read off a handle_integration_event frame.
RunSceneCalls(frame) == {i \in 1..Len(frame.trace) : frame.trace[i].op = "run_scene"}

Inserts(frame) == {i \in 1..Len(frame.trace) : frame.trace[i].op = "insert"}

Sleeps(frame) == {i \in 1..Len(frame.trace) : frame.trace[i].op = "sleep"}

\* The call has read the event store and made its throttle decision.
Checked(p) == hie[p].sensor_id # "" /\ hie[p].trace # <<>>

\* The call is over.
Ended(p) == pc[p] \in {"hie_returned", "hie_raised"} /\ hie[p].sensor_id # ""

\* The device's latest event, as persisted when the call was entered, is
\* younger than the minimum interval at the time of the check.
InThrottleWindow(frame) ==
    \E e \in BySensor(frame.events0, frame.sensor_id) :
        /\ \A o \in BySensor(frame.events0, frame.sensor_id) : o.timestamp <= e.timestamp
        /\ frame.checked_at - e.timestamp < minimum_integration_interval * 60

\* A phase failed in the words of the specification: an exception or a
\* status that is not 2xx.
PhaseFailure(status) == status = Raised \/ status \notin 200..299

\* C1: a configured device whose latest persisted event is younger than
\* minimum_integration_interval*60 seconds gets MinimumInterval, with no
\* run_scene call, no insert and the event store unchanged; from exactly
\* minimum_integration_interval*60 seconds on the call is not throttled.
C1_MinimumIntervalThrottle ==
    \A p \in Procs :
        Checked(p) =>
            IF InThrottleWindow(hie[p])
            THEN /\ pc[p] = "hie_returned"
                 /\ hie[p].result = MinimumInterval
                 /\ RunSceneCalls(hie[p]) = {}
                 /\ Inserts(hie[p]) = {}
                 /\ events = hie[p].events0
            ELSE hie[p].result # MinimumInterval

C1_Witness ==
    \E p \in Procs :
        /\ pc[p] = "hie_returned"
        /\ hie[p].result = MinimumInterval
        /\ InThrottleWindow(hie[p])
        /\ events = hie[p].events0

\* C2 (as claimed): when run_scene answers 200 for power-off and for
\* power-on, the call persists exactly one new event (fresh id, the device,
\* PowerCycle, Success, current timestamp), returns Success, and sleeps
\* exactly integration_power_cycle_seconds between the phases.
C2_PowerCycleSuccess ==
    \A p \in Procs :
        LET frame == hie[p]
            t == frame.trace
            off_ok == \E i \in RunSceneCalls(frame) : t[i].arg = PowerOff /\ t[i].status = 200
            on_ok == \E i \in RunSceneCalls(frame) : t[i].arg = PowerOn /\ t[i].status = 200
        IN  (Ended(p) /\ off_ok /\ on_ok) =>
                /\ pc[p] = "hie_returned"
                /\ frame.result = Success
                /\ Len(events) = Len(frame.events0) + 1
                /\ SubSeq(events, 1, Len(frame.events0)) = frame.events0
                /\ LET new == events[Len(events)]
                   IN  /\ \A i \in 1..Len(frame.events0) : frame.events0[i].event_id # new.event_id
                       /\ new.sensor_id = frame.sensor_id
                       /\ new.event_type = PowerCycle
                       /\ new.result = Success
                       /\ \E i \in Inserts(frame) : new.timestamp = t[i].at
                /\ Cardinality(Sleeps(frame)) = 1
                /\ \A i \in Sleeps(frame) : t[i].status = integration_power_cycle_seconds

\* C3: when the power-off request fails (exception or non-2xx status) the
\* power-cycle result is Error, power-on is not requested, there is no
\* sleep and no event is persisted.
C3_PowerOffFailure ==
    \A p \in Procs :
        LET frame == hie[p]
            t == frame.trace
        IN  (\E i \in RunSceneCalls(frame) : t[i].arg = PowerOff /\ PhaseFailure(t[i].status)) =>
                /\ frame.power_cycle_result = Error
                /\ \A i \in RunSceneCalls(frame) : t[i].arg # PowerOn
                /\ Sleeps(frame) = {}
                /\ Inserts(frame) = {}
                /\ events = frame.events0

C3_Witness ==
    \E p \in Procs :
        /\ Ended(p)
        /\ hie[p].power_cycle_result = Error
        /\ \E i \in RunSceneCalls(hie[p]) :
              hie[p].trace[i].arg = PowerOff /\ hie[p].trace[i].status = 500

\* C4: when power-off succeeded and the power-on request fails (exception,
\* timeout or non-2xx status) the power-cycle result is Error and no event
\* is persisted: the device's latest event is the one read before, although
\* the plug has been switched off.
C4_PowerOnFailure ==
    \A p \in Procs :
        LET frame == hie[p]
            t == frame.trace
        IN  \A i \in RunSceneCalls(frame) :
                (t[i].arg = PowerOn /\ PhaseFailure(t[i].status)) =>
                    /\ \E j \in RunSceneCalls(frame) :
                          j < i /\ t[j].arg = PowerOff /\ ~PhaseFailure(t[j].status)
                    /\ frame.power_cycle_result = Error
                    /\ Inserts(frame) = {}
                    /\ events = frame.events0
                    /\ get_latest_integation_event_by_sensor(frame.sensor_id) = frame.latest
                    /\ (t[i].status # Raised => plug[frame.sensor_id] = "off")

C4_Witness ==
    \E p \in Procs :
        /\ Ended(p)
        /\ hie[p].power_cycle_result = Error
        /\ plug[hie[p].sensor_id] = "off"
        /\ events = hie[p].events0
        /\ \E i \in RunSceneCalls(hie[p]) :
              hie[p].trace[i].arg = PowerOn /\ hie[p].trace[i].status = Raised

\* C5: within one call the sleep follows a successful power-off, power-on
\* follows the sleep of the configured length, with at least that much time
\* between the two requests, and the insert follows a successful power-on.
C5_PhaseOrder ==
    \A p \in Procs :
        LET t == hie[p].trace
        IN  \A i \in 1..Len(t) :
                /\ t[i].op = "sleep" =>
                      /\ i > 1
                      /\ t[i-1].op = "run_scene"
                      /\ t[i-1].arg = PowerOff
                      /\ ~PhaseFailure(t[i-1].status)
                      /\ t[i].status = integration_power_cycle_seconds
                /\ (t[i].op = "run_scene" /\ t[i].arg = PowerOn) =>
                      /\ i > 2
                      /\ t[i-1].op = "sleep"
                      /\ t[i-2].op = "run_scene"
                      /\ t[i-2].arg = PowerOff
                      /\ t[i].at - t[i-2].at >= integration_power_cycle_seconds
                /\ t[i].op = "insert" =>
                      /\ i > 1
                      /\ t[i-1].op = "run_scene"
                      /\ t[i-1].arg = PowerOn
                      /\ ~PhaseFailure(t[i-1].status)

C5_Witness ==
    \E p \in Procs :
        /\ Inserts(hie[p]) # {}
        /\ Sleeps(hie[p]) # {}
        /\ Cardinality(RunSceneCalls(hie[p])) = 2

\* The device's configuration lists the plug integration type.
ListsPlug(sensor_id) ==
    \E i \in 1..Len(integrations[sensor_id]) : integrations[sensor_id][i].device_type = Plug

\* C7 (as claimed): a configured device whose config does not list the plug
\* integration type gets NotSupported whatever its throttle state, with no
\* event persisted and no run_scene call.
C7_NotSupportedRegardless ==
    \A p \in Procs :
        (Checked(p) /\ hie[p].event_type = PowerCycle /\ ~ListsPlug(hie[p].sensor_id)) =>
            /\ pc[p] = "hie_returned"
            /\ hie[p].result = NotSupported
            /\ events = hie[p].events0
            /\ RunSceneCalls(hie[p]) = {}

\* C7 (amended): such a device gets NotSupported unless its latest event is
\* younger than the minimum interval, in which case the throttle test,
\* which comes first, answers MinimumInterval; either way no event is
\* persisted and no run_scene call is made.
C7_NotSupportedUnlessThrottled ==
    \A p \in Procs :
        (Checked(p) /\ hie[p].event_type = PowerCycle /\ ~ListsPlug(hie[p].sensor_id)) =>
            /\ pc[p] = "hie_returned"
            /\ hie[p].result = IF InThrottleWindow(hie[p]) THEN MinimumInterval ELSE NotSupported
            /\ events = hie[p].events0
            /\ RunSceneCalls(hie[p]) = {}

C7_Witness ==
    \E p \in Procs :
        /\ pc[p] = "hie_returned"
        /\ hie[p].result = NotSupported
        /\ ~ListsPlug(hie[p].sensor_id)
        /\ BySensor(hie[p].events0, hie[p].sensor_id) # {}

\* The scene id of a phase is missing or blank in the device's first plug
\* integration.
SceneIdMissing(sensor_id, scene_type) ==
    LET config == integrations[sensor_id]
        first == CHOOSE i \in 1..Len(config) :
                    /\ config[i].device_type = Plug
                    /\ \A j \in 1..(i-1) : config[j].device_type # Plug
        scenes == config[first].scenes
    IN  \/ scene_type \notin DOMAIN scenes
        \/ scenes[scene_type] \in {None, "", " "}

\* C8: when the power cycle runs for a plug config whose power-off or
\* power-on scene id is missing or blank, the result is
\* InvalidConfiguration, no event is persisted and no run_scene call is
\* made at all, also when only the power-on scene id is missing.
C8_InvalidConfiguration ==
    \A p \in Procs :
        LET frame == hie[p]
        IN  (/\ Checked(p)
             /\ ~InThrottleWindow(frame)
             /\ frame.event_type = PowerCycle
             /\ ListsPlug(frame.sensor_id)
             /\ SceneIdMissing(frame.sensor_id, PowerOff) \/ SceneIdMissing(frame.sensor_id, PowerOn)) =>
                /\ pc[p] = "hie_returned"
                /\ frame.result = InvalidConfiguration
                /\ frame.power_cycle_result = InvalidConfiguration
                /\ RunSceneCalls(frame) = {}
                /\ Inserts(frame) = {}
                /\ events = frame.events0
                /\ kasa[frame.sensor_id] = -1

C8_Witness ==
    \E p \in Procs :
        /\ pc[p] = "hie_returned"
        /\ hie[p].result = InvalidConfiguration
        /\ ~SceneIdMissing(hie[p].sensor_id, PowerOff)
        /\ SceneIdMissing(hie[p].sensor_id, PowerOn)
        /\ RunSceneCalls(hie[p]) = {}

\* C6 (as claimed): two power-off requests for the same device are at least
\* minimum_integration_interval minutes apart, whatever the outcome of the
\* earlier attempt.
C6_OneAttemptPerInterval ==
    [][\A d \in Devices :
          (kasa'[d] # kasa[d] /\ kasa[d] # -1) =>
              kasa'[d] - kasa[d] >= minimum_integration_interval * 60]_vars

\* C6 (amended): a power-off request is made for a device only when each of
\* its persisted events is at least minimum_integration_interval minutes
\* old, and a call within that interval of the device's latest persisted
\* event yields MinimumInterval without any run_scene call; an attempt that
\* failed persisted no event and does not count.
C6_OneAttemptPerPersistedEvent ==
    \A p \in Procs :
        LET frame == hie[p]
            t == frame.trace
        IN  /\ \A i \in RunSceneCalls(frame) :
                  \A e \in BySensor(frame.events0, frame.sensor_id) :
                      t[i].at - e.timestamp >= minimum_integration_interval * 60
            /\ (Checked(p) /\ InThrottleWindow(frame)) =>
                  /\ frame.result = MinimumInterval
                  /\ RunSceneCalls(frame) = {}
                  /\ kasa[frame.sensor_id] <= frame.checked_at

C6_Witness ==
    \E p \in Procs :
        /\ pc[p] = "hie_returned"
        /\ hie[p].caller = "poll"
        /\ hie[p].result = MinimumInterval
        /\ kasa[hie[p].sensor_id] # -1
        /\ hie[p].checked_at - kasa[hie[p].sensor_id] < minimum_integration_interval * 60

\* C9: a verdict computed from a telemetry record has seconds_elapsed =
\* now - record.timestamp for the device's newest record, and is Unhealthy
\* iff seconds_elapsed >= 90, the boundary included, Healthy otherwise.
C9_HealthVerdict ==
    [][\A p \in Procs :
          Len(poll'[p].device_health) = Len(poll[p].device_health) + 1 =>
              LET h == poll'[p].device_health[Len(poll'[p].device_health)]
                  records == BySensor(sensor_data, h.device_id)
              IN  /\ \E r \in records :
                        /\ \A o \in records : o.timestamp <= r.timestamp
                        /\ h.last_contact = r.timestamp
                        /\ h.seconds_elapsed = now - r.timestamp
                  /\ h.status = IF h.seconds_elapsed >= 90 THEN Unhealthy ELSE Healthy]_vars

C9_Witness ==
    \E p \in Procs :
        \E i \in 1..Len(poll[p].device_health) :
            /\ poll[p].device_health[i].seconds_elapsed = 90
            /\ poll[p].device_health[i].status = Unhealthy

\* C10 (as claimed): the health check of a device without any telemetry
\* record does not fail; it yields Unhealthy with last_contact = 0 and
\* seconds_elapsed = 0, so the device is among the verdicts of
\* get_sensor_info.
C10_NoTelemetryUnhealthy ==
    \A p \in Procs :
        \A d \in Devices :
            (poll[p].op # "" /\ d \notin poll[p].pending /\ BySensor(sensor_data, d) = {}) =>
                /\ pc[p] # "gsi_raised"
                /\ \E i \in 1..Len(poll[p].device_health) :
                      /\ poll[p].device_health[i].device_id = d
                      /\ poll[p].device_health[i].status = Unhealthy
                      /\ poll[p].device_health[i].last_contact = 0
                      /\ poll[p].device_health[i].seconds_elapsed = 0

\* C11: the list poll_sensor_status returns holds exactly one poll result,
\* with is_healthy = false, for each device whose verdict is Unhealthy and
\* none for a Healthy device, in ascending order of device_id.
C11_PollResults ==
    \A p \in Procs :
        pc[p] = "poll_returned" =>
            LET results == poll[p].results
                sensors == poll[p].sensors
            IN  /\ \A i \in 1..Len(sensors) :
                      Cardinality({j \in 1..Len(results) :
                                      results[j].device_id = sensors[i].device_id})
                          = IF sensors[i].status = Unhealthy THEN 1 ELSE 0
                /\ \A j \in 1..Len(results) :
                      /\ results[j].is_healthy = FALSE
                      /\ \E i \in 1..Len(sensors) : sensors[i].device_id = results[j].device_id
                /\ \A j \in 1..(Len(results) - 1) :
                      StrIndex(results[j].device_id) < StrIndex(results[j+1].device_id)

C11_Witness ==
    \E p \in Procs :
        /\ pc[p] = "poll_returned"
        /\ Len(poll[p].results) = 2
        /\ poll[p].sensors[1].device_id = "s2"
        /\ poll[p].results[1].device_id = "s1"

\* The outcomes of handle_integration_event a poll result can carry.
PollOutcomes == {MinimumInterval, NotSupported, InvalidConfiguration, Error, Success}

\* C12 (as claimed): within one poll_sensor_status call
\* handle_integration_event is invoked once for each unhealthy device with
\* integration config, never for a healthy device or one without config,
\* and every such call ends with a result that is attached to the device's
\* poll result, whatever the outcome of the power cycle; the poll result of
\* a device without config carries no integration data.
C12_SingleShotAttached ==
    \A p \in Procs :
        poll[p].op = "poll" =>
            LET frame == poll[p]
                health(d) == CHOOSE h \in {frame.sensors[i] : i \in 1..Len(frame.sensors)} :
                                h.device_id = d
            IN  /\ \A i, j \in 1..Len(frame.calls) : frame.calls[i] = frame.calls[j] => i = j
                /\ \A i \in 1..Len(frame.calls) :
                      /\ health(frame.calls[i]).status = Unhealthy
                      /\ frame.calls[i] \in DOMAIN integrations
                /\ (hie[p].caller = "poll" /\ Ended(p)) => pc[p] = "hie_returned"
                /\ pc[p] # "poll_raised"
                /\ \A j \in 1..Len(frame.results) :
                      LET d == frame.results[j].device_id
                      IN  IF d \in DOMAIN integrations
                          THEN /\ \E i \in 1..Len(frame.calls) : frame.calls[i] = d
                               /\ frame.results[j].integration \in PollOutcomes
                          ELSE /\ \A i \in 1..Len(frame.calls) : frame.calls[i] # d
                               /\ frame.results[j].integration = ""

\* C13 (as claimed): every unhealthy device of a poll reaches the alert
\* step, whether or not an integration ran and whatever its outcome: the
\* sensor-failure alert is dispatched iff the feature flag is enabled, and
\* the device's poll result is appended after it.
C13_AlertPerUnhealthyDevice ==
    \A p \in Procs :
        poll[p].op = "poll" =>
            LET frame == poll[p]
                asked(d) == {j \in 1..Len(frame.flags) : frame.flags[j].device_id = d}
                sent(d) == {j \in 1..Len(frame.alerts) : frame.alerts[j] = d}
                appended(d) == {j \in 1..Len(frame.results) : frame.results[j].device_id = d}
                integration_done == hie[p].caller = "poll" /\ Ended(p)
            IN  /\ \A i \in 1..Len(frame.sensors) :
                      LET d == frame.sensors[i].device_id
                      IN  IF frame.sensors[i].status = Unhealthy
                             /\ (i < frame.idx \/ (i = frame.idx /\ pc[p] = "poll_raised"))
                          THEN /\ Cardinality(asked(d)) = 1
                               /\ Cardinality(appended(d)) = 1
                               /\ \A j \in asked(d) :
                                     Cardinality(sent(d)) = IF frame.flags[j].enabled THEN 1 ELSE 0
                          ELSE asked(d) = {} /\ sent(d) = {} /\ appended(d) = {}
                /\ integration_done => pc[p] = "hie_returned"

\* C14 (as claimed): a failure of one device's telemetry lookup or
\* evaluation does not abort the sweep of get_sensor_info: every device is
\* still evaluated, the call returns its list, and the failing device is
\* in it as Unhealthy with zero elapsed seconds.
C14_FailureIsolated ==
    \A p \in Procs :
        poll[p].op # "" =>
            LET frame == poll[p]
                failed == {d \in Devices \ frame.pending : get_health_status(get_top_sensor_record(d)).raised}
                verdicts(d) == {i \in 1..Len(frame.device_health) : frame.device_health[i].device_id = d}
            IN  /\ pc[p] # "gsi_raised"
                /\ \A d \in Devices \ frame.pending : Cardinality(verdicts(d)) = 1
                /\ \A d \in failed : \A i \in verdicts(d) :
                      /\ frame.device_health[i].status = Unhealthy
                      /\ frame.device_health[i].seconds_elapsed = 0

\* C15 (as claimed): after a failure status or an exception of run_scene in
\* either phase, and for either value of the integration-alert feature
\* flag, handle_integration_event returns a typed result with result =
\* Error whose message names the failing phase; it never raises.
C15_TypedErrorResult ==
    \A p \in Procs :
        LET frame == hie[p]
            t == frame.trace
        IN  \A i \in RunSceneCalls(frame) :
                (Ended(p) /\ PhaseFailure(t[i].status)) =>
                    /\ pc[p] = "hie_returned"
                    /\ frame.result = Error
                    /\ frame.message =
                          IF t[i].arg = PowerOff
                          THEN "An error occurred while sending the request to run the power off scene"
                          ELSE "An error occurred while sending the request to run the power on scene"

\* C16: a handle_integration_event call for a device without integration
\* config raises before the event store is read and before any run_scene
\* call or insert; it returns no typed result and leaves the store as it
\* was.
C16_MissingConfigRaises ==
    \A p \in Procs :
        (hie[p].sensor_id # "" /\ hie[p].sensor_id \notin DOMAIN integrations) =>
            /\ pc[p] = "hie_raised"
            /\ hie[p].trace = <<>>
            /\ hie[p].latest = {}
            /\ hie[p].result = ""
            /\ hie[p].power_cycle_result = ""
            /\ events = hie[p].events0
            /\ kasa[hie[p].sensor_id] = -1

C16_Witness ==
    \E p \in Procs :
        /\ pc[p] = "hie_raised"
        /\ hie[p].sensor_id \notin DOMAIN integrations
        /\ BySensor(events, hie[p].sensor_id) # {}
        /\ hie[p].trace = <<>>

\* C17: the Integration collection is append-only: a step either leaves it
\* as it is or adds one event at its end, so no existing event is modified
\* or removed; one handle_integration_event invocation inserts at most one
\* event, and an attempt that ends as MinimumInterval, NotSupported or
\* InvalidConfiguration inserts none.
C17_AppendOnly ==
    /\ [][\/ events' = events
          \/ /\ Len(events') = Len(events) + 1
             /\ SubSeq(events', 1, Len(events)) = events]_vars
    /\ [](\A p \in Procs :
            /\ Cardinality(Inserts(hie[p])) <= 1
            /\ hie[p].sensor_id # "" =>
                  /\ Len(events) = Len(hie[p].events0) + Cardinality(Inserts(hie[p]))
                  /\ SubSeq(events, 1, Len(hie[p].events0)) = hie[p].events0
            /\ hie[p].result \in {MinimumInterval, NotSupported, InvalidConfiguration} =>
                  /\ Inserts(hie[p]) = {}
                  /\ events = hie[p].events0)

C17_Witness ==
    \E p \in Procs :
        /\ hie[p].caller = "poll"
        /\ Inserts(hie[p]) # {}
        /\ hie[p].events0 # <<>>
        /\ Len(events) = Len(hie[p].events0) + 1
        /\ SubSeq(events, 1, Len(hie[p].events0)) = hie[p].events0

\* C18 (as claimed): when a phase of the power cycle has failed, the
\* attempt is over and an event with result Error is persisted for the
\* device.
C18_ErrorEventPersisted ==
    \A p \in Procs :
        LET frame == hie[p]
            t == frame.trace
        IN  (Ended(p) /\ \E i \in RunSceneCalls(frame) : PhaseFailure(t[i].status)) =>
                \E k \in 1..Len(events) :
                    /\ k > Len(frame.events0)
                    /\ events[k].sensor_id = frame.sensor_id
                    /\ events[k].result = Error

\* C18 (amended): when a phase of the power cycle has failed, the attempt
\* is over with the outcome Error: the call makes no further run_scene
\* request, sleep or insert, repeats no phase, and persists no event, so
\* the collection is as the call found it and holds no Error event.
C18_FailureTerminalNotPersisted ==
    \A p \in Procs :
        LET frame == hie[p]
            t == frame.trace
        IN  \A i \in RunSceneCalls(frame) :
                PhaseFailure(t[i].status) =>
                    /\ \A j \in 1..Len(t) : j > i => t[j].op \notin {"run_scene", "sleep", "insert"}
                    /\ \A j \in RunSceneCalls(frame) : t[j].arg = t[i].arg => j = i
                    /\ frame.power_cycle_result = Error
                    /\ Inserts(frame) = {}
                    /\ events = frame.events0
                    /\ \A k \in 1..Len(events) : events[k].result # Error

C18_Witness ==
    \E p \in Procs :
        /\ pc[p] = "hie_returned"
        /\ hie[p].result = Error
        /\ hie[p].events0 # <<>>
        /\ events = hie[p].events0
        /\ \E i \in RunSceneCalls(hie[p]) :
              hie[p].trace[i].arg = PowerOn /\ hie[p].trace[i].status = 500

\* The call of worker p has asked for the power-off scene.
PoweredOff(p) ==
    \E i \in RunSceneCalls(hie[p]) : hie[p].trace[i].arg = PowerOff

\* C19: the throttle is a read-then-act check. A call that goes on to
\* power off decided on the event it read: that event is at least the
\* minimum interval old, and every event of the device that would have
\* throttled the call was inserted after the call's read. Hence two
\* overlapping calls can both read, both pass and both power-cycle (the
\* witness): two power-off requests and two Success events for one device
\* within one minimum interval.
C19_ThrottleDecidesOnRead ==
    \A p \in Procs :
        PoweredOff(p) =>
            /\ \A e \in hie[p].latest :
                  hie[p].checked_at - e.timestamp >= minimum_integration_interval * 60
            /\ \A k \in 1..Len(events) :
                  (/\ events[k].sensor_id = hie[p].sensor_id
                   /\ hie[p].checked_at - events[k].timestamp < minimum_integration_interval * 60)
                      => k > hie[p].read_len

C19_Witness ==
    \E p, q \in Procs :
        /\ p # q
        /\ hie[p].sensor_id = hie[q].sensor_id
        /\ hie[p].latest = hie[q].latest
        /\ PoweredOff(p) /\ PoweredOff(q)
        /\ Inserts(hie[p]) # {} /\ Inserts(hie[q]) # {}
        /\ \A i \in RunSceneCalls(hie[p]) : \A j \in RunSceneCalls(hie[q]) :
              (hie[p].trace[i].arg = PowerOff /\ hie[q].trace[j].arg = PowerOff) =>
                  hie[q].trace[j].at - hie[p].trace[i].at \in
                      0..(minimum_integration_interval * 60 - 1)
        /\ \E k, m \in 1..Len(events) :
              /\ k < m
              /\ k > hie[p].read_len /\ k > hie[q].read_len
              /\ events[k].sensor_id = hie[p].sensor_id
              /\ events[m].sensor_id = hie[p].sensor_id
              /\ events[k].result = Success /\ events[m].result = Success
              /\ events[m].timestamp - events[k].timestamp < minimum_integration_interval * 60

\* C20: get_sensor_info goes on only when all its health-check tasks are
\* done; whatever the order in which the lookups completed, when none of
\* them failed the list it returns holds exactly one verdict per
\* registered device and is in ascending order of device name.
C20_FanOutJoin ==
    \A p \in Procs :
        (poll[p].op # "" /\ pc[p] \notin {"gsi_tasks", "gsi_raised"}) =>
            LET sensors == poll[p].sensors
            IN  /\ poll[p].pending = {}
                /\ Len(sensors) = Cardinality(Devices)
                /\ \A d \in Devices :
                      Cardinality({i \in 1..Len(sensors) : sensors[i].device_id = d}) = 1
                /\ \A i \in 1..Len(sensors) :
                      sensors[i].device_name = device_name[sensors[i].device_id]
                /\ \A i \in 1..(Len(sensors) - 1) :
                      StrIndex(sensors[i].device_name) < StrIndex(sensors[i+1].device_name)

C20_Witness ==
    \E p \in Procs :
        /\ pc[p] = "gsi_returned"
        /\ poll[p].op = "info"
        /\ Len(poll[p].sensors) = 2
        /\ poll[p].device_health[1].device_id = "s1"
        /\ poll[p].sensors[1].device_id = "s2"

\* C21 (as claimed): a phase of the power cycle is judged failed exactly
\* when run_scene raised or answered with a status that is not 2xx; any
\* 2xx status lets the power cycle go on.
C21_Any2xxSucceeds ==
    \A p \in Procs :
        LET frame == hie[p]
            t == frame.trace
        IN  \A i \in RunSceneCalls(frame) :
                LET judged_failed == /\ frame.power_cycle_result = Error
                                     /\ \A j \in RunSceneCalls(frame) : j <= i
                IN  judged_failed <=> PhaseFailure(t[i].status)

\* C22 (as claimed): for a configured device and an event type other than
\* PowerCycle the call answers NoAction whatever the throttle state of the
\* device, with no run_scene call and no event persisted.
C22_NoActionRegardless ==
    \A p \in Procs :
        (Checked(p) /\ hie[p].event_type # PowerCycle) =>
            /\ pc[p] = "hie_returned"
            /\ hie[p].result = NoAction
            /\ RunSceneCalls(hie[p]) = {}
            /\ Inserts(hie[p]) = {}
            /\ events = hie[p].events0

\* C22 (amended): such a call answers NoAction unless the device's latest
\* event is younger than the minimum interval, in which case the throttle
\* test, which comes before the event type is looked at, answers
\* MinimumInterval; either way there is no run_scene call, no query of the
\* alert flag and no event persisted.
C22_NoActionUnlessThrottled ==
    \A p \in Procs :
        (Checked(p) /\ hie[p].event_type # PowerCycle) =>
            /\ pc[p] = "hie_returned"
            /\ hie[p].result = IF InThrottleWindow(hie[p]) THEN MinimumInterval ELSE NoAction
            /\ hie[p].power_cycle_result = ""
            /\ \A i \in 1..Len(hie[p].trace) : hie[p].trace[i].op = "find_one"
            /\ events = hie[p].events0

C22_Witness ==
    \E p \in Procs :
        /\ pc[p] = "hie_returned"
        /\ hie[p].event_type = OtherEventType
        /\ hie[p].result = NoAction
        /\ BySensor(hie[p].events0, hie[p].sensor_id) # {}
        /\ hie[p].trace # <<>>

\* C23: the thermostat-mode cache is only an optimization: whatever the
\* order in which the cache-write and cache-bust tasks are done,
\* set_thermostat_mode sends the set-mode command exactly when the
\* thermostat's mode differs from the requested one, and once no task is
\* pending a cached mode is the thermostat's mode.
C23_CacheOnlyOptimization ==
    /\ \A p \in Procs :
          cmd[p].current_mode # "" =>
              ((cmd[p].current_mode # cmd[p].mode) <=> (cmd[p].actual # cmd[p].mode))
    /\ (tasks = <<>> /\ cache # None) => cache = thermostat

\* C27: no temperature command beyond a safety limit reaches the
\* thermostat: set-heat and set-range raise when the heat temperature is
\* above the maximum, set-cool and set-range raise when the cool temperature
\* is below the minimum, and a request that raised has had no effect: no
\* read, no task created, no command sent, the thermostat's mode as it was.
C27_SafetyLimits ==
    \A p \in Procs :
        LET frame == cmd[p]
            heat == frame.params.heat_degrees_fahrenheit
            cool == frame.params.cool_degrees_fahrenheit
        IN  frame.command_type # "" =>
              /\ ( /\ frame.command_type \in {SetHeat, SetRange}
                   /\ heat # {}
                   /\ Degrees(heat) > maximum_allowed_temperature ) => frame.raised # ""
              /\ ( /\ frame.command_type \in {SetCool, SetRange}
                   /\ cool # {}
                   /\ Degrees(cool) < minimum_allowed_temperature ) => frame.raised # ""
              /\ frame.raised # "" =>
                    /\ pc[p] = "cmd_raised"
                    /\ frame.trace = <<>>
                    /\ thermostat = frame.actual
              /\ \A i \in 1..Len(frame.trace) :
                    frame.trace[i].op = "execute_command" =>
                      /\ frame.trace[i].arg \in {NEST_COMMAND_SET_HEAT, NEST_COMMAND_SET_RANGE}
                            => frame.trace[i].heatCelsius <= to_celsius(maximum_allowed_temperature)
                      /\ frame.trace[i].arg \in {NEST_COMMAND_SET_COOL, NEST_COMMAND_SET_RANGE}
                            => frame.trace[i].coolCelsius >= to_celsius(minimum_allowed_temperature)

C27_Witness ==
    \E p \in Procs :
        /\ pc[p] = "cmd_raised"
        /\ cmd[p].command_type = SetRange
        /\ cmd[p].params.heat_degrees_fahrenheit = {maximum_allowed_temperature}
        /\ cmd[p].params.cool_degrees_fahrenheit = {minimum_allowed_temperature - 1}
        /\ cmd[p].raised = "NestThermostatTemperatureException"
        /\ tasks # <<>>

\* C28: handle_command dispatches every value of NestCommandType, set-mode
\* included, to a handler: NestThermostatUnknownCommandException is raised
\* only for a command_type that is no value of NestCommandType.
C28_EveryCommandTypeDispatched ==
    \A p \in Procs :
        cmd[p].raised = "NestThermostatUnknownCommandException" =>
            cmd[p].command_type \notin NestCommandType

\* C30: get_token leaves the registered credentials as they were
\* registered, and the form it posts carries exactly the scope it was
\* called with, none when it was called with none, whatever the earlier
\* calls asked for.
C30_ScopeOfThisCallOnly ==
    /\ clients = register_clients
    /\ \A p \in Procs : \A data \in idc[p].data :
          data.scope = IF none_or_whitespace(idc[p].scope) THEN {} ELSE {idc[p].scope}

\* What the claims read off a get_integration_events frame: the stored
\* events of the last days_back days, of the sensor asked for if any.
InWindow(frame) ==
    {i \in 1..Len(events) :
        /\ now - frame.days_back * 86400 < events[i].timestamp
        /\ events[i].timestamp <= now
        /\ frame.sensor_id # None => events[i].sensor_id = frame.sensor_id}

C29_TelemetryAppendOnly ==
    [][\A p \in Procs :
          (pc[p] = "idle" /\ pc'[p] \in {"lsd_returned", "lsd_raised"}) =>
              IF lsd'[p].sensor_id \in Devices
              THEN /\ pc'[p] = "lsd_returned"
                   /\ Len(sensor_data') = Len(sensor_data) + 1
                   /\ SubSeq(sensor_data', 1, Len(sensor_data)) = sensor_data
                   /\ LET record == sensor_data'[Len(sensor_data')]
                      IN  /\ record.sensor_id = lsd'[p].sensor_id
                          /\ record.record_id = lsd'[p].record_id
                          /\ record.timestamp = now
                          /\ \A i \in 1..Len(sensor_data) :
                                sensor_data[i].record_id # record.record_id
              ELSE /\ pc'[p] = "lsd_raised"
                   /\ sensor_data' = sensor_data]_vars

C29_Witness ==
    \E p \in Procs :
        /\ pc[p] = "lsd_returned"
        /\ Len(sensor_data) = 2
        /\ sensor_data[2].record_id = lsd[p].record_id
        /\ sensor_data[1].sensor_id = sensor_data[2].sensor_id
        /\ sensor_data[1].timestamp < sensor_data[2].timestamp

\* What the claims read off a handle_integration_event frame: the queries of
\* the alert feature flag and the alerts sent.
FlagQueries(frame) == {i \in 1..Len(frame.trace) : frame.trace[i].op = "is_enabled"}

AlertsSent(frame) == {i \in 1..Len(frame.trace) : frame.trace[i].op = "send_datatable_email"}

PowerOnFailed(d) ==
    /\ pc[1] = "hie_alert"
    /\ hie[1].sensor_id = d
    /\ hie[1].power_cycle_result = Error
    /\ hie[1].trace[Len(hie[1].trace)].arg = PowerOn
    /\ plug[d] = "off"

\* No further poll can start in the modelled range of the clock and of the
\* event store.
Horizon == now > MaxTime \/ Len(events) >= MaxEvents

\* C25: after a power cycle that switched a device's plug off and whose
\* power-on phase failed, the plug is eventually switched on by a later
\* poll, given that polls keep occurring, the sensor stays unhealthy and
\* run_scene does not fail for ever on the device's scenes (as long as the
\* clock is in the modelled range).
C25_FailedPowerOnRecovers ==
    \A d \in Devices :
        RunSceneEventuallySucceeds(d) => (PowerOnFailed(d) ~> (plug[d] = "on" \/ Horizon))

====
